---- MODULE Spec2Model ----
(***************************************************************************)
(* Reconciliation core of the build-project promotion toolkit              *)
(* (src/ib_cicd/rebuild_utils.py): modify_schema, map_field_ids and        *)
(* modify_validations, with the helpers they call.                         *)
(*                                                                         *)
(* A Python dict is an insertion-ordered sequence of <<key, value>>        *)
(* entries  [k |-> key, v |-> value]  with pairwise distinct keys.         *)
(* JSON object keys are strings; identifiers inside validation rules are   *)
(* JSON numbers, so str() and int() are modelled as conversions.           *)
(***************************************************************************)
EXTENDS Integers, Sequences, FiniteSets, TLC

VARIABLES
    pc,                 \* position of the operation under check
    target_schema,      \* modify_schema argument: the target's schema
    source_schema,      \* modify_schema argument: the source's schema (the
                        \* caller's object: in-place changes show here)
    source_schema_in,   \* the source schema as it was when passed in
    udfs,               \* sanitized UDFs, dict str(udf id) -> udf
    result,             \* what the operation returned or raised
    calls,              \* external calls issued, in order
    minted,             \* identifiers returned by generate_id, in order
    target_validations, \* modify_validations argument: the target's rules
    source_validations, \* modify_validations argument: the source's rules
                        \* (the caller's object: in-place changes show here)
    source_validations_in,  \* the source rules as they were when passed in
    mappings,           \* modify_validations argument: old id -> new id
    old_schema,         \* map_field_ids argument: the schema of the source
    new_schema,         \* map_field_ids argument: the schema post_schema returned
    heap,               \* the objects sanitize_udf_payload works on, by address
    udfs_in,            \* the fetched UDFs as they were when passed in
    schema_arg,         \* get_item_ids argument: a container of entities
    modified_schema,    \* rebuild_project: what modify_schema returned
    modified_validations,   \* rebuild_project: what modify_validations returned
    posted,             \* rebuild_project: the payloads posted so far
    history,            \* the runs that have ended: their external calls, their outcome
    backend             \* what the target environment stores

vars == <<pc, target_schema, source_schema, source_schema_in, udfs, result,
          calls, minted, target_validations, source_validations,
          source_validations_in, mappings, old_schema, new_schema,
          heap, udfs_in, schema_arg, modified_schema, modified_validations,
          posted, history, backend>>

\* the arguments of the operations that are not the one under check
schema_args == <<target_schema, source_schema, source_schema_in>>
validation_args == <<target_validations, source_validations,
                     source_validations_in, mappings>>
map_args == <<old_schema, new_schema>>
sanitize_args == <<heap, udfs_in>>
item_args == <<schema_arg>>
run_args == <<modified_schema, modified_validations, posted, history, backend>>

\* rebuild_project is not running
NotRunning ==
    /\ modified_schema = <<>>
    /\ modified_validations = <<>>
    /\ posted = 0
    /\ history = <<>>
    /\ backend = <<>>

----------------------------------------------------------------------------
(* Bounds of the input families *)

MaxClasses == 2
MaxFields  == 2
MaxUdfLines == 2

----------------------------------------------------------------------------
(* Python dict operations *)

Range(s) == {s[i] : i \in 1..Len(s)}

DictKeys(d) == {d[i].k : i \in 1..Len(d)}

DictHas(d, key) == key \in DictKeys(d)

DictGet(d, key) == d[CHOOSE i \in 1..Len(d) : d[i].k = key].v

\* d[key] = value : an existing key keeps its position, a new key is appended
DictPut(d, key, value) ==
    IF DictHas(d, key)
    THEN [i \in 1..Len(d) |-> IF d[i].k = key THEN [k |-> key, v |-> value] ELSE d[i]]
    ELSE Append(d, [k |-> key, v |-> value])

NoResult == [status |-> "none"]

\* a validations document without rules
NoRules == [rules |-> <<>>]

----------------------------------------------------------------------------
(* get_item_ids *)

MetaKeys == {"last_edited_at", "last_edited_class_at"}

\* an indexing that takes every key for an entity
RECURSIVE get_item_ids_unfiltered(_, _, _)
get_item_ids_unfiltered(container, i, items) ==
    IF i > Len(container) THEN items
    ELSE get_item_ids_unfiltered(container, i + 1,
            DictPut(items,
                    IF "name" \in DOMAIN container[i].v THEN container[i].v.name
                    ELSE container[i].v.scalar,
                    container[i].k))

\* an indexing in which the first entity of a name keeps the name
RECURSIVE get_item_ids_first(_, _, _)
get_item_ids_first(container, i, items) ==
    IF i > Len(container) THEN items
    ELSE get_item_ids_first(container, i + 1,
            IF container[i].k \notin MetaKeys /\ ~DictHas(items, container[i].v.name)
            THEN DictPut(items, container[i].v.name, container[i].k)
            ELSE items)

RECURSIVE get_item_ids_from(_, _, _)
get_item_ids_from(schema, i, items) ==
    IF i > Len(schema) THEN items
    ELSE get_item_ids_from(schema, i + 1,
            IF schema[i].k \notin MetaKeys
            THEN DictPut(items, schema[i].v.name, schema[i].k)
            ELSE items)

\* {'field/class name': 'ID'} in the order names are first met; a name met
\* again keeps its place and takes the later key
get_item_ids(schema) == get_item_ids_from(schema, 1, <<>>)

----------------------------------------------------------------------------
(* External collaborators and the random source *)

\* The environment threaded through one operation:
\*   calls   external calls issued so far, each [op, arg, ret, ok]
\*   failAt  the index of the external call that fails (0: none does)
\*   failAs  how it fails: "HTTPError" when the target answers with an
\*           error status, which only raise_for_status() turns into an
\*           exception, "ConnectionError" when the request itself raises
\*   nextUdf the identifier the target assigns to the next UDF it creates
\*   uuids   the values uuid4() returns next, in order
\*   minted  the identifiers generate_id returned so far
\*   status  "ok", or the exception that is propagating
Env0(failAt, failAs, firstUdf, uuids) ==
    [calls |-> <<>>, failAt |-> failAt, failAs |-> failAs, nextUdf |-> firstUdf,
     uuids |-> uuids, minted |-> <<>>, status |-> "ok"]

FailureKinds == {"HTTPError", "ConnectionError"}

\* the ways the failAt-th call can fail
FailuresAt(failAt) == IF failAt = 0 THEN {"HTTPError"} ELSE FailureKinds

LastRet(env) == env.calls[Len(env.calls)].ret

\* POST .../udfs then raise_for_status(): the target creates the UDF and
\* answers {"udf_id": <new id>}, or the call raises
post_udf(data, env) ==
    IF env.failAt = Len(env.calls) + 1
    THEN [env EXCEPT !.calls = Append(@, [op |-> "createUdf", arg |-> data,
                                          ret |-> 0, ok |-> FALSE]),
                     !.status = env.failAs]
    ELSE [env EXCEPT !.calls = Append(@, [op |-> "createUdf", arg |-> data,
                                          ret |-> env.nextUdf, ok |-> TRUE]),
                     !.nextUdf = @ + 1]

\* str(uuid4()).replace("-", "")[:21]: a uuid4 value is 32 hex digits, held
\* here as its first 21 digits (head) and its last 11 (tail); the slice
\* keeps the head
generate_id(env) ==
    LET uuid == Head(env.uuids)
        id   == uuid.head
    IN  [id |-> id,
         env |-> [env EXCEPT !.uuids = Tail(@), !.minted = Append(@, id)]]

----------------------------------------------------------------------------
(* modify_udf_lines *)

\* line["function_id"] = result["udf_id"], once post_udf has returned
udf_line_posted(lines, i, e2) ==
    [lines |-> IF e2.status = "ok"
               THEN [lines EXCEPT ![i].function_id = LastRet(e2)]
               ELSE lines,
     env |-> e2]

\* a UDF line left as it is, without a call
udf_line_step_skipped(st, i, udfsD) == st

\* an iteration that leaves a line alone when udfs lacks its function_id
udf_line_step_lenient(st, i, udfsD) ==
    IF st.env.status # "ok" THEN st
    ELSE IF st.lines[i].line_type # "UDF" THEN st
    ELSE IF ~DictHas(udfsD, ToString(st.lines[i].function_id)) THEN st
    ELSE udf_line_posted(st.lines, i,
            post_udf(DictGet(udfsD, ToString(st.lines[i].function_id)), st.env))

\* one iteration of the loop over field_schema["lines"]
udf_line_step(st, i, udfsD) ==
    IF st.env.status # "ok" THEN st
    ELSE IF st.lines[i].line_type # "UDF" THEN st
    ELSE IF ~DictHas(udfsD, ToString(st.lines[i].function_id))
    THEN [st EXCEPT !.env.status = "KeyError"]
    ELSE udf_line_posted(st.lines, i,
            post_udf(DictGet(udfsD, ToString(st.lines[i].function_id)), st.env))

RECURSIVE modify_udf_lines_from(_, _, _)
modify_udf_lines_from(st, i, udfsD) ==
    IF i > Len(st.lines) THEN st
    ELSE modify_udf_lines_from(udf_line_step(st, i, udfsD), i + 1, udfsD)

\* rewrites, in place, the function_id of every UDF line of the field to
\* the identifier post_udf returned; the result holds the lines as they
\* are when the loop ends or raises
modify_udf_lines(lines, udfsD, env) ==
    modify_udf_lines_from([lines |-> lines, env |-> env], 1, udfsD)

----------------------------------------------------------------------------
(* modify_schema *)

\* source_schema[class_id]["fields"][field_id]["lines"] after the in-place
\* rewriting of modify_udf_lines (field_schema is a shallow copy, so its
\* lines are the source's own list)
SetLines(schema, class_id, field_id, lines) ==
    [c \in 1..Len(schema) |->
        IF schema[c].k # class_id THEN schema[c]
        ELSE [schema[c] EXCEPT !.v.fields =
                [f \in 1..Len(@) |->
                    IF @[f].k # field_id THEN @[f]
                    ELSE [@[f] EXCEPT !.v.lines = lines]]]]

\* if class_name in target_classes / if field_name in target_fields: a dict
\* is tested for a key, here the name
NameInIndexValues(name, index) == \E i \in 1..Len(index) : index[i].v = name

name_in_target(name, index) == DictHas(index, name)

\* target_class_id = target_classes[class_name]
KeyIsName(name, index) == name

target_id_of(name, index) == DictGet(index, name)

\* field_schema["uuid"] = generate_id()
WithUuid(field_schema, id) ==
    [name |-> field_schema.name, lines |-> field_schema.lines, uuid |-> id]

\* new_fields.append(field_schema) with the identifier g just minted
field_minted(acc, field_schema, g) ==
    [acc EXCEPT !.new_fields = Append(@, WithUuid(field_schema, g.id)),
                !.env = g.env]

\* what one field adds once modify_udf_lines has run on its copy: r holds
\* the lines and the environment it left. The copy is shallow, so the
\* source's own lines are the rewritten ones, also when it raised.
field_stored(acc, field_name, source_class_id, source_field_id, target_fields, source_field_schema, r) ==
    IF r.env.status # "ok"
    THEN [acc EXCEPT !.env = r.env,
                     !.src = SetLines(@, source_class_id, source_field_id, r.lines)]
    ELSE IF name_in_target(field_name, target_fields)
    THEN [acc EXCEPT !.fields = DictPut(@, target_id_of(field_name, target_fields),
                                        [source_field_schema EXCEPT !.lines = r.lines]),
                     !.env = r.env,
                     !.src = SetLines(@, source_class_id, source_field_id, r.lines)]
    ELSE field_minted(
            [acc EXCEPT !.src = SetLines(@, source_class_id, source_field_id, r.lines)],
            [source_field_schema EXCEPT !.lines = r.lines],
            generate_id(r.env))

SourceField(src, source_class_id, source_field_id) ==
    DictGet(DictGet(src, source_class_id).fields, source_field_id)

\* one iteration of the loop over the fields of a source class.
\* target_fields is the name -> id index of the matched target class, and
\* empty for a class that is new (there every field goes to new_fields).
\* acc holds fields, new_fields, env and src (the source schema object).
field_step(acc, field_name, source_field_id, source_class_id, target_fields, udfsD) ==
    IF acc.env.status # "ok" THEN acc
    ELSE field_stored(acc, field_name, source_class_id, source_field_id, target_fields,
            SourceField(acc.src, source_class_id, source_field_id),
            modify_udf_lines(SourceField(acc.src, source_class_id, source_field_id).lines,
                             udfsD, acc.env))

RECURSIVE modify_fields_from(_, _, _, _, _, _)
modify_fields_from(source_fields, i, source_class_id, target_fields, udfsD, acc) ==
    IF i > Len(source_fields) THEN acc
    ELSE modify_fields_from(source_fields, i + 1, source_class_id, target_fields, udfsD,
            field_step(acc, source_fields[i].k, source_fields[i].v,
                       source_class_id, target_fields, udfsD))

\* the class_schema built from the source class and the fields collected
class_schema_of(source_class_schema, done) ==
    [name |-> source_class_schema.name,
     description |-> source_class_schema.description,
     fields |-> done.fields,
     new_fields |-> done.new_fields]

\* every class_schema appended to new_classes, matched or not
class_stored_as_new(acc, class_name, source_class_schema, target_classes, done) ==
    IF done.env.status # "ok"
    THEN [acc EXCEPT !.env = done.env, !.src = done.src]
    ELSE [acc EXCEPT !.new_classes = Append(@, class_schema_of(source_class_schema, done)),
                     !.env = done.env, !.src = done.src]

\* classes[target_class_id] = class_schema, or new_classes.append(class_schema)
class_stored(acc, class_name, source_class_schema, target_classes, done) ==
    IF done.env.status # "ok"
    THEN [acc EXCEPT !.env = done.env, !.src = done.src]
    ELSE IF name_in_target(class_name, target_classes)
    THEN [acc EXCEPT !.classes = DictPut(@, target_id_of(class_name, target_classes),
                                         class_schema_of(source_class_schema, done)),
                     !.env = done.env, !.src = done.src]
    ELSE [acc EXCEPT !.new_classes = Append(@, class_schema_of(source_class_schema, done)),
                     !.env = done.env, !.src = done.src]

\* target_fields = get_item_ids(target_schema[target_class_id]["fields"])
target_fields_of(class_name, target_classes, target) ==
    IF name_in_target(class_name, target_classes)
    THEN get_item_ids(DictGet(target, target_id_of(class_name, target_classes)).fields)
    ELSE <<>>

\* one iteration of the loop over the source classes. acc holds classes,
\* new_classes, env and src.
class_step(acc, class_name, source_class_id, target_classes, target, udfsD) ==
    IF acc.env.status # "ok" THEN acc
    ELSE class_stored(acc, class_name, DictGet(acc.src, source_class_id), target_classes,
            modify_fields_from(
                get_item_ids(DictGet(acc.src, source_class_id).fields), 1,
                source_class_id,
                target_fields_of(class_name, target_classes, target), udfsD,
                [fields |-> <<>>, new_fields |-> <<>>,
                 env |-> acc.env, src |-> acc.src]))

RECURSIVE modify_classes_from(_, _, _, _, _, _)
modify_classes_from(source_classes, i, target_classes, target, udfsD, acc) ==
    IF i > Len(source_classes) THEN acc
    ELSE modify_classes_from(source_classes, i + 1, target_classes, target, udfsD,
            class_step(acc, source_classes[i].k, source_classes[i].v,
                       target_classes, target, udfsD))

\* return {"classes": classes, "new_classes": new_classes}, or the raise
schema_result(done) ==
    IF done.env.status = "ok"
    THEN [status |-> "ok",
          payload |-> [classes |-> done.classes, new_classes |-> done.new_classes],
          env |-> done.env, src |-> done.src]
    ELSE [status |-> done.env.status,
          payload |-> [classes |-> <<>>, new_classes |-> <<>>],
          env |-> done.env, src |-> done.src]

\* modify_schema(target_schema, source_schema, ..., udfs): the payload, or
\* the exception raised; env and src are the environment and the source
\* schema object when it ends
modify_schema(target, source, udfsD, env) ==
    schema_result(
        modify_classes_from(get_item_ids(source), 1, get_item_ids(target), target, udfsD,
            [classes |-> <<>>, new_classes |-> <<>>, env |-> env, src |-> source]))

----------------------------------------------------------------------------
(* Input families *)

ClassNames == {"Invoice", "Receipt"}
FieldNames == {"Total", "Date"}

\* two values generate_id can return: 21 hex digits, the 13th a "4"
TokenA == "0f8b2c4d6e7a4b1c9d3e5"
TokenB == "7c1e9a0b3d5f42a68b0c2"

\* uuid4() values: two of them share their first 21 hex digits
Uuid4Values ==
    { [head |-> TokenA, tail |-> "f6a7b8c9d0e"],
      [head |-> TokenA, tail |-> "0a1b2c3d4e5"],
      [head |-> TokenB, tail |-> "f6a7b8c9d0e"] }

\* n successive uuid4() values: pairwise different UUIDs
UuidDraws(n) ==
    {us \in [1..n -> Uuid4Values] : \A i, j \in 1..n : i # j => us[i] # us[j]}

PromptLine == [line_type |-> "PROMPT", prompt |-> "extract it"]
UdfLine(function_id) == [line_type |-> "UDF", function_id |-> function_id]

\* a sanitized UDF (clean_function_data has forced the return type)
SanitizedUdf(name) == [name |-> name, code |-> "def f(): pass", return_type |-> "string"]

FieldEntry(key, name, lines) == [k |-> key, v |-> [name |-> name, lines |-> lines]]

ClassEntry(key, name, description, fields) ==
    [k |-> key, v |-> [name |-> name, description |-> description, fields |-> fields]]

\* the "fields" containers with n fields: the j-th field has the j-th key
\* of fieldKeys
FieldDicts(n, fieldKeys, lineOpts) ==
    { [j \in 1..n |-> FieldEntry(fieldKeys[j], nm[j], ln[j])] :
        nm \in [1..n -> FieldNames],
        ln \in [1..n -> lineOpts] }

Min(a, b) == IF a < b THEN a ELSE b

\* the schemas that continue after i - 1 classes, with at most `budget`
\* more fields in all: the i-th class has the i-th key of classKeys and
\* takes the keys of its fields from fieldKeys[i]
RECURSIVE SchemasFrom(_, _, _, _, _, _)
SchemasFrom(i, budget, classKeys, fieldKeys, lineOpts, description) ==
    {<<>>} \cup
    IF i > Min(MaxClasses, Len(classKeys)) THEN {}
    ELSE UNION {
           { <<ClassEntry(classKeys[i], name, description, fields)>> \o rest :
               name \in ClassNames,
               fields \in FieldDicts(n, fieldKeys[i], lineOpts),
               rest \in SchemasFrom(i + 1, budget - n,
                                    classKeys, fieldKeys, lineOpts, description) } :
           n \in 0..Min(budget, Len(fieldKeys[i])) }

\* at most MaxClasses classes and MaxFields fields in all
Schemas(classKeys, fieldKeys, lineOpts, description) ==
    SchemasFrom(1, MaxFields, classKeys, fieldKeys, lineOpts, description)

\* every class takes the keys of its fields from the same sequence
SameKeys(keys) == <<keys, keys, keys>>

RECURSIVE CountFields(_)
CountFields(schema) ==
    IF schema = <<>> THEN 0
    ELSE Len(Head(schema).v.fields) + CountFields(Tail(schema))

CountUdfLines(schema) ==
    LET perField(f) == Cardinality({l \in 1..Len(f.v.lines) : f.v.lines[l].line_type = "UDF"})
        RECURSIVE sumF(_, _)
        sumF(fs, j) == IF j > Len(fs) THEN 0 ELSE perField(fs[j]) + sumF(fs, j + 1)
        RECURSIVE sumC(_)
        sumC(c) == IF c > Len(schema) THEN 0 ELSE sumF(schema[c].v.fields, 1) + sumC(c + 1)
    IN  sumC(1)

\* the container-level metadata the backend stores beside the entities
MetaEntry(key) == [k |-> key, v |-> [scalar |-> "2024-05-01T10:00:00"]]

WithMeta(schema) ==
    Append([c \in 1..Len(schema) |->
               [schema[c] EXCEPT !.v.fields = Append(@, MetaEntry("last_edited_at"))]],
           MetaEntry("last_edited_class_at"))

\* the entries of a container that are entities
Entities(container) == SelectSeq(container, LAMBDA e : e.k \notin MetaKeys)

----------------------------------------------------------------------------
(* modify_schema on bounded inputs *)

SourceSchemas ==
    { s \in Schemas(<<"1", "2", "3">>, SameKeys(<<"11", "12", "13">>),
                    {<<>>, <<PromptLine, UdfLine(1)>>}, "from source") :
        CountUdfLines(s) <= MaxUdfLines }

TargetSchemas ==
    { WithMeta(s) : s \in Schemas(<<"5", TokenA, "6">>,
                                  SameKeys(<<"7", TokenA, "8">>),
                                  {<<>>}, "from target") }

InitSchema ==
    /\ pc = "start"
    /\ target_schema \in TargetSchemas
    /\ source_schema \in SourceSchemas
    /\ source_schema_in = source_schema
    /\ udfs = <<[k |-> "1", v |-> SanitizedUdf("normalize")]>>
    /\ result = NoResult
    /\ calls = <<>>
    /\ minted = <<>>
    /\ target_validations = NoRules
    /\ source_validations = NoRules
    /\ source_validations_in = NoRules
    /\ mappings = <<>>
    /\ old_schema = <<>>
    /\ new_schema = <<>>
    /\ heap = <<>>
    /\ udfs_in = <<>>
    /\ schema_arg = <<>>
    /\ NotRunning

\* what the caller sees when modify_schema ends with r
SchemaReturns(r) ==
    /\ result' = [status |-> r.status, payload |-> r.payload]
    /\ source_schema' = r.src
    /\ calls' = r.env.calls
    /\ minted' = r.env.minted
    /\ pc' = IF r.status = "ok" THEN "returned" ELSE "raised"

\* one call modify_schema(target_schema, source_schema, ..., udfs)
CallModifySchema ==
    /\ pc = "start"
    /\ \E failAt \in 0..CountUdfLines(source_schema),
          us \in UuidDraws(CountFields(source_schema)) :
         \E failAs \in FailuresAt(failAt) :
            SchemaReturns(modify_schema(target_schema, source_schema, udfs,
                                        Env0(failAt, failAs, 101, us)))
    /\ UNCHANGED <<target_schema, source_schema_in, udfs, validation_args, map_args,
                   sanitize_args, item_args, run_args>>

NextSchema == CallModifySchema

SpecSchema == InitSchema /\ [][NextSchema]_vars

----------------------------------------------------------------------------
(* What the claims about modify_schema speak of *)

Payload == result.payload

\* the class entities of the two schemas (the source's with its lines as
\* modify_udf_lines left them, which is what the payload holds)
SrcClasses == Entities(source_schema)
TgtClasses == Entities(target_schema)

FieldsOf(class) == Entities(class.v.fields)

NamesOf(entries) == {entries[i].v.name : i \in 1..Len(entries)}

\* no later entity of the container has the name of the i-th
LastOfName(entries, i) ==
    \A j \in (i + 1)..Len(entries) : entries[j].v.name # entries[i].v.name

LastIndices(entries) == {i \in 1..Len(entries) : LastOfName(entries, i)}

\* every class and field identifier of the target schema
TargetIds ==
    {TgtClasses[i].k : i \in 1..Len(TgtClasses)} \cup
    UNION { {FieldsOf(TgtClasses[i])[j].k : j \in 1..Len(FieldsOf(TgtClasses[i]))} :
            i \in 1..Len(TgtClasses) }

\* the payload holds the source field under classes[cid].fields[fid]
HeldUnder(cid, fid, field) ==
    /\ DictHas(Payload.classes, cid)
    /\ DictHas(DictGet(Payload.classes, cid).fields, fid)
    /\ DictGet(DictGet(Payload.classes, cid).fields, fid) = field

\* the entries of classes[cid].new_fields that carry the name
NewFieldEntries(cid, name) ==
    IF DictHas(Payload.classes, cid)
    THEN {n \in 1..Len(DictGet(Payload.classes, cid).new_fields) :
            DictGet(Payload.classes, cid).new_fields[n].name = name}
    ELSE {}

\* C1 as stated: every field of a source class that has the name of a field
\* of a target class of the same name is held under that target class's and
\* that target field's identifiers, and is in no new_fields list.
C1_Original ==
    pc = "returned" =>
    \A si \in 1..Len(SrcClasses), ti \in 1..Len(TgtClasses) :
        SrcClasses[si].v.name = TgtClasses[ti].v.name =>
        \A sj \in 1..Len(FieldsOf(SrcClasses[si])),
           tj \in 1..Len(FieldsOf(TgtClasses[ti])) :
            LET sf == FieldsOf(SrcClasses[si])[sj]
                tf == FieldsOf(TgtClasses[ti])[tj]
            IN  sf.v.name = tf.v.name =>
                /\ HeldUnder(TgtClasses[ti].k, tf.k, sf.v)
                /\ NewFieldEntries(TgtClasses[ti].k, sf.v.name) = {}

\* C1 (amended): the same for the entities the name indexes keep, that is
\* for the last source class of a name, the last target class of that name,
\* the last field of a name in that source class and the last field of that
\* name in that target class: the field is held under the two target
\* identifiers and no identifier is minted for its name in that class.
C1_ReusesTargetIds ==
    pc = "returned" =>
    \A si \in LastIndices(SrcClasses), ti \in LastIndices(TgtClasses) :
        SrcClasses[si].v.name = TgtClasses[ti].v.name =>
        \A sj \in LastIndices(FieldsOf(SrcClasses[si])),
           tj \in LastIndices(FieldsOf(TgtClasses[ti])) :
            LET sf == FieldsOf(SrcClasses[si])[sj]
                tf == FieldsOf(TgtClasses[ti])[tj]
            IN  sf.v.name = tf.v.name =>
                /\ HeldUnder(TgtClasses[ti].k, tf.k, sf.v)
                /\ NewFieldEntries(TgtClasses[ti].k, sf.v.name) = {}

\* a returned payload with a matched class that has a matched field with a
\* rewritten UDF line, beside a field that is new
C1_Witness ==
    /\ pc = "returned"
    /\ \E si \in LastIndices(SrcClasses), ti \in LastIndices(TgtClasses) :
        /\ SrcClasses[si].v.name = TgtClasses[ti].v.name
        /\ \E sj \in LastIndices(FieldsOf(SrcClasses[si])),
              tj \in LastIndices(FieldsOf(TgtClasses[ti])) :
            /\ FieldsOf(SrcClasses[si])[sj].v.name = FieldsOf(TgtClasses[ti])[tj].v.name
            /\ Len(FieldsOf(SrcClasses[si])[sj].v.lines) > 0
            /\ HeldUnder(TgtClasses[ti].k, FieldsOf(TgtClasses[ti])[tj].k,
                         FieldsOf(SrcClasses[si])[sj].v)
        /\ Len(DictGet(Payload.classes, TgtClasses[ti].k).new_fields) > 0

\* the fields of a matched source class that the name index keeps and whose
\* name no field of the matched target class has
NewIn(sc, tc) ==
    {sj \in LastIndices(FieldsOf(sc)) :
        FieldsOf(sc)[sj].v.name \notin NamesOf(FieldsOf(tc))}

\* the field is listed once in classes[cid].new_fields, with an identifier
\* generate_id returned, and is under no key of classes[cid].fields
ListedOnceAsNew(cid, field) ==
    /\ Cardinality(NewFieldEntries(cid, field.name)) = 1
    /\ \A n \in NewFieldEntries(cid, field.name) :
        LET e == DictGet(Payload.classes, cid).new_fields[n]
        IN  /\ e.lines = field.lines
            /\ e.uuid \in Range(minted)
    /\ \A i \in 1..Len(DictGet(Payload.classes, cid).fields) :
        DictGet(Payload.classes, cid).fields[i].v.name # field.name

\* C2: a field of a matched source class whose name the target class lacks
\* is listed exactly once in that class's new_fields with an identifier from
\* generate_id, is under no key of its fields, and its identifier is no
\* identifier of the target schema. (Stated for the entities the name
\* indexes keep, the reading most favourable to the claim.)
C2_NewFieldIsFresh ==
    pc = "returned" =>
    \A si \in LastIndices(SrcClasses), ti \in LastIndices(TgtClasses) :
        SrcClasses[si].v.name = TgtClasses[ti].v.name =>
        \A sj \in NewIn(SrcClasses[si], TgtClasses[ti]) :
            LET cid == TgtClasses[ti].k
                sf  == FieldsOf(SrcClasses[si])[sj].v
            IN  /\ DictHas(Payload.classes, cid)
                /\ ListedOnceAsNew(cid, sf)
                /\ \A n \in NewFieldEntries(cid, sf.name) :
                    DictGet(Payload.classes, cid).new_fields[n].uuid \notin TargetIds

\* C3: the identifiers minted in one call are pairwise distinct and none is
\* a class or field identifier of the target schema.
C3_MintedDistinct ==
    pc = "returned" =>
    /\ \A i, j \in 1..Len(minted) : i # j => minted[i] # minted[j]
    /\ Range(minted) \cap TargetIds = {}

\* the entries of new_classes that carry the name
NewClassEntries(name) ==
    {n \in 1..Len(Payload.new_classes) : Payload.new_classes[n].name = name}

\* the entries of classes that carry the name
ClassEntries(name) ==
    {i \in 1..Len(Payload.classes) : Payload.classes[i].v.name = name}

ClassSchemaKeys == {"name", "description", "fields", "new_fields"}

\* the new_classes entry is the one of source class sc: no fields kept, no
\* class identifier, and each listed field (the indices js) once in
\* new_fields with an identifier generate_id returned
IsNewClassEntry(e, sc, js) ==
    /\ e.name = sc.v.name
    /\ e.description = sc.v.description
    /\ e.fields = <<>>
    /\ DOMAIN e = ClassSchemaKeys
    /\ Len(e.new_fields) = Cardinality(js)
    /\ \A j \in js :
        \E n \in 1..Len(e.new_fields) :
            /\ e.new_fields[n].name = FieldsOf(sc)[j].v.name
            /\ e.new_fields[n].lines = FieldsOf(sc)[j].v.lines
            /\ e.new_fields[n].uuid \in Range(minted)

AllIndices(entries) == 1..Len(entries)

\* C4 as stated: each source class with no target class of its name has its
\* own entry of new_classes (empty fields, every field of the class in
\* new_fields with a minted identifier, no class identifier); each source
\* class with a target class of its name has no new_classes entry and one
\* entry of classes, under the identifier of a target class of that name.
C4_Original ==
    pc = "returned" =>
    /\ Len(Payload.new_classes) =
         Cardinality({si \in AllIndices(SrcClasses) :
                        SrcClasses[si].v.name \notin NamesOf(TgtClasses)})
    /\ \A si \in AllIndices(SrcClasses) :
        LET sc == SrcClasses[si]
        IN  IF sc.v.name \notin NamesOf(TgtClasses)
            THEN /\ ClassEntries(sc.v.name) = {}
                 /\ \E n \in NewClassEntries(sc.v.name) :
                      IsNewClassEntry(Payload.new_classes[n], sc,
                                      AllIndices(FieldsOf(sc)))
            ELSE /\ NewClassEntries(sc.v.name) = {}
                 /\ Cardinality(ClassEntries(sc.v.name)) = 1
                 /\ \E ti \in AllIndices(TgtClasses) :
                      /\ TgtClasses[ti].v.name = sc.v.name
                      /\ DictHas(Payload.classes, TgtClasses[ti].k)
                      /\ DictGet(Payload.classes, TgtClasses[ti].k).name = sc.v.name

\* C4 (amended): the same per class name. The last source class of a name
\* with no target class of that name has exactly one entry of new_classes
\* (empty fields, the last field of each name of the class in new_fields
\* with a minted identifier, no class identifier) and none of classes; the
\* last source class of a name that the target has gets no new_classes
\* entry and exactly one entry of classes, under the identifier of the last
\* target class of that name. The payload has no other entries.
C4_NewClassIffUnmatched ==
    pc = "returned" =>
    /\ Len(Payload.new_classes) + Len(Payload.classes) =
         Cardinality(NamesOf(SrcClasses))
    /\ \A si \in LastIndices(SrcClasses) :
        LET sc == SrcClasses[si]
        IN  IF sc.v.name \notin NamesOf(TgtClasses)
            THEN /\ ClassEntries(sc.v.name) = {}
                 /\ Cardinality(NewClassEntries(sc.v.name)) = 1
                 /\ \A n \in NewClassEntries(sc.v.name) :
                      IsNewClassEntry(Payload.new_classes[n], sc,
                                      LastIndices(FieldsOf(sc)))
            ELSE /\ NewClassEntries(sc.v.name) = {}
                 /\ Cardinality(ClassEntries(sc.v.name)) = 1
                 /\ \A ti \in LastIndices(TgtClasses) :
                      TgtClasses[ti].v.name = sc.v.name =>
                      /\ DictHas(Payload.classes, TgtClasses[ti].k)
                      /\ DictGet(Payload.classes, TgtClasses[ti].k).name = sc.v.name
                      /\ DictGet(Payload.classes, TgtClasses[ti].k).description
                            = sc.v.description

\* a returned payload with a class that is new and brings a field, beside a
\* class that the target has
C4_Witness ==
    /\ pc = "returned"
    /\ \E n \in 1..Len(Payload.new_classes) :
        /\ Len(Payload.new_classes[n].new_fields) > 0
        /\ Payload.new_classes[n].name \notin NamesOf(TgtClasses)
    /\ \E i \in 1..Len(Payload.classes) :
        Payload.classes[i].v.name \in NamesOf(TgtClasses)

\* the field identifiers of the target class with identifier cid
TargetFieldIds(cid) ==
    UNION { IF TgtClasses[i].k = cid
            THEN {FieldsOf(TgtClasses[i])[j].k : j \in 1..Len(FieldsOf(TgtClasses[i]))}
            ELSE {} : i \in 1..Len(TgtClasses) }

TargetClassIds == {TgtClasses[i].k : i \in 1..Len(TgtClasses)}

\* every class and field identifier of the source schema
SourceIds ==
    {SrcClasses[i].k : i \in 1..Len(SrcClasses)} \cup
    UNION { {FieldsOf(SrcClasses[i])[j].k : j \in 1..Len(FieldsOf(SrcClasses[i]))} :
            i \in 1..Len(SrcClasses) }

\* every key the payload uses, at both levels
PayloadKeys ==
    DictKeys(Payload.classes) \cup
    UNION { DictKeys(Payload.classes[i].v.fields) : i \in 1..Len(Payload.classes) }

\* the identifiers the new_fields lists of the payload carry
PayloadUuids ==
    UNION { {Payload.classes[i].v.new_fields[n].uuid :
                n \in 1..Len(Payload.classes[i].v.new_fields)} :
            i \in 1..Len(Payload.classes) } \cup
    UNION { {Payload.new_classes[c].new_fields[n].uuid :
                n \in 1..Len(Payload.new_classes[c].new_fields)} :
            c \in 1..Len(Payload.new_classes) }

\* C5: every key of classes is a target class identifier, every key of
\* classes[c].fields is a field identifier of target class c, every other
\* identifier of the payload (the uuid of a new field) was returned by
\* generate_id in this call, entries of new_classes and the fields kept
\* carry no identifier of their own, and no source identifier is a key.
C5_OnlyTargetOrMintedIds ==
    pc = "returned" =>
    /\ DictKeys(Payload.classes) \subseteq TargetClassIds
    /\ \A i \in 1..Len(Payload.classes) :
        /\ DictKeys(Payload.classes[i].v.fields) \subseteq TargetFieldIds(Payload.classes[i].k)
        /\ DOMAIN Payload.classes[i].v = ClassSchemaKeys
        /\ \A f \in 1..Len(Payload.classes[i].v.fields) :
            DOMAIN Payload.classes[i].v.fields[f].v = {"name", "lines"}
    /\ \A c \in 1..Len(Payload.new_classes) :
        /\ DOMAIN Payload.new_classes[c] = ClassSchemaKeys
        /\ Payload.new_classes[c].fields = <<>>
    /\ PayloadUuids = Range(minted)
    /\ PayloadKeys \cap SourceIds = {}

\* a returned payload that keeps a field under target identifiers, lists a
\* new field in that class, and has a new class, from a source with
\* identifiers of its own
C5_Witness ==
    /\ pc = "returned"
    /\ \E i \in 1..Len(Payload.classes) :
        /\ Len(Payload.classes[i].v.fields) > 0
        /\ Len(Payload.classes[i].v.new_fields) > 0
    /\ Len(Payload.new_classes) > 0
    /\ Cardinality(SourceIds) >= 3

\* the source classes as they were passed in
SrcClassesIn == Entities(source_schema_in)

\* the fields of the payload that carry the field name, in the entries that
\* carry the class name: under fields or new_fields of an entry of classes,
\* or under new_fields of an entry of new_classes
PayloadFieldsNamed(cname, fname) ==
    UNION { {c.v.fields[j].v : j \in {x \in 1..Len(c.v.fields) : c.v.fields[x].v.name = fname}}
            \cup {c.v.new_fields[n] : n \in {x \in 1..Len(c.v.new_fields) : c.v.new_fields[x].name = fname}} :
            c \in {e \in Range(Payload.classes) : e.v.name = cname} }
    \cup
    UNION { {c.new_fields[n] : n \in {x \in 1..Len(c.new_fields) : c.new_fields[x].name = fname}} :
            c \in {e \in Range(Payload.new_classes) : e.name = cname} }

\* the lines of the source fields that modify_schema processes: line n of
\* the field at fj of the class at ci, both the last of their names
ProcessedLines ==
    UNION { UNION { { <<ci, fj, n>> :
                        n \in 1..Len(FieldsOf(SrcClassesIn[ci])[fj].v.lines) } :
                    fj \in LastIndices(FieldsOf(SrcClassesIn[ci])) } :
            ci \in LastIndices(SrcClassesIn) }

SourceLine(p) == FieldsOf(SrcClassesIn[p[1]])[p[2]].v.lines[p[3]]

ProcessedUdfLines == {p \in ProcessedLines : SourceLine(p).line_type = "UDF"}

\* the line of the payload at the place of the source line
PayloadLines(p) ==
    { f.lines[p[3]] :
        f \in { g \in PayloadFieldsNamed(SrcClassesIn[p[1]].v.name,
                                         FieldsOf(SrcClassesIn[p[1]])[p[2]].v.name) :
                  Len(g.lines) >= p[3] } }

\* the createUdf calls that returned the identifier
CreatesReturning(id) ==
    {c \in 1..Len(calls) : calls[c].op = "createUdf" /\ calls[c].ok /\ calls[c].ret = id}

\* C18: when modify_schema returns, every UDF line of a processed source
\* field has caused one createUdf call, whose argument is the sanitized UDF
\* stored under the line's function_id, and the payload holds the line with
\* function_id equal to the identifier that call returned; the calls are as
\* many as those lines; a line of another kind is in the payload as it was.
C18_UdfLinesRecreated ==
    pc = "returned" =>
        /\ Len(calls) = Cardinality(ProcessedUdfLines)
        /\ \A c \in 1..Len(calls) : calls[c].op = "createUdf" /\ calls[c].ok
        /\ \A p \in ProcessedLines :
             /\ Cardinality(PayloadLines(p)) = 1
             /\ \A line \in PayloadLines(p) :
                  IF SourceLine(p).line_type = "UDF"
                  THEN /\ line = [SourceLine(p) EXCEPT !.function_id = line.function_id]
                       /\ Cardinality(CreatesReturning(line.function_id)) = 1
                       /\ \A c \in CreatesReturning(line.function_id) :
                            calls[c].arg =
                              DictGet(udfs, ToString(SourceLine(p).function_id))
                  ELSE line = SourceLine(p)
        /\ \A p, q \in ProcessedUdfLines :
             PayloadLines(p) = PayloadLines(q) => p = q

\* two UDF lines, in a matched field and in a new one, beside prompt lines
C18_Witness ==
    /\ pc = "returned"
    /\ Cardinality(ProcessedUdfLines) = 2
    /\ Len(Payload.classes) = 1
    /\ Len(Payload.classes[1].v.fields) = 1
    /\ Len(Payload.classes[1].v.new_fields) = 1
    /\ \E p \in ProcessedLines : SourceLine(p).line_type # "UDF"

\* the last entity of the name among the entries, and its key
LastNamed(entries, name) ==
    entries[CHOOSE i \in LastIndices(entries) : entries[i].v.name = name]

\* the index of the container gives every name the key of the last entity
\* that carries it
IndexedByLast(container) ==
    /\ {e.k : e \in Range(get_item_ids(container))} = NamesOf(Entities(container))
    /\ \A name \in NamesOf(Entities(container)) :
         DictGet(get_item_ids(container), name) = LastNamed(Entities(container), name).k

\* the entry of the payload for the source class: under the key of the last
\* target class of its name, or in new_classes
PayloadClassFor(sc) ==
    IF sc.v.name \in NamesOf(TgtClasses)
    THEN DictGet(Payload.classes, LastNamed(TgtClasses, sc.v.name).k)
    ELSE Payload.new_classes[CHOOSE n \in NewClassEntries(sc.v.name) : TRUE]

\* the fields of the payload entry are those of the source class that are
\* the last of their names, each once, with the lines of that field; a
\* field whose name the last target class of the name has is under the key
\* of the last target field of that name
FieldsAreLastOnes(sc, entry) ==
    /\ Len(entry.fields) + Len(entry.new_fields) = Cardinality(NamesOf(FieldsOf(sc)))
    /\ \A fname \in NamesOf(FieldsOf(sc)) :
         LET sf == LastNamed(FieldsOf(sc), fname)
         IN  IF /\ sc.v.name \in NamesOf(TgtClasses)
                /\ fname \in NamesOf(FieldsOf(LastNamed(TgtClasses, sc.v.name)))
             THEN /\ DictHas(entry.fields,
                             LastNamed(FieldsOf(LastNamed(TgtClasses, sc.v.name)), fname).k)
                  /\ DictGet(entry.fields,
                             LastNamed(FieldsOf(LastNamed(TgtClasses, sc.v.name)), fname).k)
                        = sf.v
             ELSE \E n \in 1..Len(entry.new_fields) :
                     /\ entry.new_fields[n].name = fname
                     /\ entry.new_fields[n].lines = sf.v.lines

\* C23: a name that several entities carry never makes modify_schema
\* raise and goes to the last of them.  get_item_ids gives every name of
\* the source and of the target the key of the last entity of that name;
\* a call that raises does so for a failed createUdf call only; the
\* payload of a call that returns has one entry per source class name,
\* made from the last source class of the name and the last of its fields
\* of each name, under the keys of the last target class and the last
\* target field of those names where the target has them; and the
\* createUdf calls are those of the UDF lines of these fields alone.
C23_LastOfNameWins ==
    /\ IndexedByLast(source_schema_in)
    /\ IndexedByLast(target_schema)
    /\ \A ci \in 1..Len(SrcClassesIn) : IndexedByLast(SrcClassesIn[ci].v.fields)
    /\ pc = "raised" =>
         /\ result.status \in FailureKinds
         /\ ~calls[Len(calls)].ok
    /\ pc = "returned" =>
         /\ Len(Payload.classes) + Len(Payload.new_classes) = Cardinality(NamesOf(SrcClasses))
         /\ \A si \in LastIndices(SrcClasses) :
              /\ Cardinality(ClassEntries(SrcClasses[si].v.name))
                   + Cardinality(NewClassEntries(SrcClasses[si].v.name)) = 1
              /\ FieldsAreLastOnes(SrcClasses[si], PayloadClassFor(SrcClasses[si]))
         /\ Len(calls) = Cardinality(ProcessedUdfLines)

\* a call that returned without a createUdf call: the source has two
\* classes of one name, the first with a UDF line and the last without,
\* and the target has two classes of that name too
C23_Witness ==
    /\ pc = "returned"
    /\ calls = <<>>
    /\ Len(SrcClassesIn) = 2
    /\ SrcClassesIn[1].v.name = SrcClassesIn[2].v.name
    /\ CountUdfLines(<<SrcClassesIn[1]>>) > 0
    /\ Len(TgtClasses) = 2
    /\ TgtClasses[1].v.name = SrcClassesIn[1].v.name
    /\ TgtClasses[2].v.name = SrcClassesIn[1].v.name
    /\ DictHas(Payload.classes, TgtClasses[2].k)

\* C26: when modify_schema has ended, by returning or by raising, the
\* source schema it was given is as it was passed in: every line of every
\* field has the function_id it had and no field has got a uuid.
C26_SourceSchemaUnchanged ==
    pc \in {"returned", "raised"} => source_schema = source_schema_in

----------------------------------------------------------------------------
(* update_fields_with_mapping *)

\* the largest identifier written as a decimal numeral in the families
MaxId == 20

\* int(s) of a string s: the number whose decimal numeral s is; a string
\* that is no numeral raises ValueError
IsNumeral(s) == \E n \in 0..MaxId : ToString(n) = s

int(s) == CHOOSE n \in 0..MaxId : ToString(n) = s

\* an identifier without an entry is left out of the result
update_field_step_dropping(st, f, mappingsD) ==
    IF st.status # "ok" THEN st
    ELSE IF ~DictHas(mappingsD, ToString(f)) THEN st
    ELSE IF ~IsNumeral(DictGet(mappingsD, ToString(f)))
    THEN [st EXCEPT !.status = "ValueError"]
    ELSE [st EXCEPT !.result = Append(@, int(DictGet(mappingsD, ToString(f))))]

\* result.append(int(mappings[str(f)]))
update_field_step(st, f, mappingsD) ==
    IF st.status # "ok" THEN st
    ELSE IF ~DictHas(mappingsD, ToString(f))
    THEN [st EXCEPT !.status = "KeyError"]
    ELSE IF ~IsNumeral(DictGet(mappingsD, ToString(f)))
    THEN [st EXCEPT !.status = "ValueError"]
    ELSE [st EXCEPT !.result = Append(@, int(DictGet(mappingsD, ToString(f))))]

RECURSIVE update_fields_from(_, _, _, _)
update_fields_from(fields, i, mappingsD, st) ==
    IF i > Len(fields) THEN st
    ELSE update_fields_from(fields, i + 1, mappingsD,
                            update_field_step(st, fields[i], mappingsD))

\* the list of the images of the identifiers, or the exception raised
update_fields_with_mapping(fields, mappingsD) ==
    update_fields_from(fields, 1, mappingsD, [status |-> "ok", result |-> <<>>])

----------------------------------------------------------------------------
(* modify_validations *)

None == "None"

project_id == "target-project"

\* rule.get(key, default)
RuleGet(rule, key, default) == IF key \in DOMAIN rule THEN rule[key] ELSE default

\* the deletion is not issued
delete_validations_skipped(id, env) == env

\* DELETE .../validations?id=<id> then raise_for_status()
delete_validations(id, env) ==
    IF env.failAt = Len(env.calls) + 1
    THEN [env EXCEPT !.calls = Append(@, [op |-> "deleteValidation", arg |-> id,
                                          ret |-> 0, ok |-> FALSE]),
                     !.status = env.failAs]
    ELSE [env EXCEPT !.calls = Append(@, [op |-> "deleteValidation", arg |-> id,
                                          ret |-> 0, ok |-> TRUE])]

\* resp = requests.put(.../validations/<new_id>/examples): the status of
\* the response is not looked at (no raise_for_status()), so the call
\* raises only when the request cannot be made; an error answer is printed
\* and the function goes on
run_examples(new_id, env) ==
    IF env.failAt = Len(env.calls) + 1
    THEN [env EXCEPT !.calls = Append(@, [op |-> "runExamples", arg |-> new_id,
                                          ret |-> 0, ok |-> FALSE]),
                     !.status = IF env.failAs = "ConnectionError"
                                THEN "ConnectionError" ELSE @]
    ELSE [env EXCEPT !.calls = Append(@, [op |-> "runExamples", arg |-> new_id,
                                          ret |-> 0, ok |-> TRUE])]

\* names[rule.get("name")] = rule.get("id")
names_step(names, rule) ==
    DictPut(names, RuleGet(rule, "name", None), RuleGet(rule, "id", None))

RECURSIVE names_from(_, _, _)
names_from(rules, i, names) ==
    IF i > Len(rules) THEN names
    ELSE names_from(rules, i + 1, names_step(names, rules[i]))

\* the exception leaves the loop
raised(acc, env, error) == [acc EXCEPT !.env = [env EXCEPT !.status = error]]

\* rule["params"][key] = value, on the source's own rule: the payload's
\* params is the rule's params object
SetParam(rules, i, key, value) ==
    [rules EXCEPT ![i].params = DictPut(@, key, value)]

\* the payload dict built from the rule and its rewritten references
base_payload(rule, affected_fields, input_fields) ==
    [projectId |-> project_id,
     name |-> RuleGet(rule, "name", None),
     type |-> RuleGet(rule, "type", None),
     affected_fields |-> affected_fields,
     alert_level |-> RuleGet(rule, "alert_level", None),
     scope |-> RuleGet(rule, "scope", None),
     description |-> RuleGet(rule, "description", ""),
     input_fields |-> input_fields,
     params |-> RuleGet(rule, "params", <<>>)]

\* the payload put before the ones built so far
rule_prepended(acc, env, payload) ==
    [acc EXCEPT !.payloads = <<payload>> \o @, !.env = env]

\* payloads.append(payload)
rule_appended(acc, env, payload) ==
    [acc EXCEPT !.payloads = Append(@, payload), !.env = env]

\* payload["params"]["udf_id"] = int(new_id), once the examples were run
rule_examples_run(acc, i, payload, new_id, e3) ==
    IF e3.status # "ok" THEN [acc EXCEPT !.env = e3]
    ELSE [acc EXCEPT
            !.payloads = Append(@, [payload EXCEPT !.params = DictPut(@, "udf_id", new_id)]),
            !.rules = SetParam(@, i, "udf_id", new_id),
            !.env = e3]

\* the rule's UDF is created but the examples are not requested
rule_udf_posted_untriggered(acc, i, payload, e2) ==
    IF e2.status # "ok" THEN [acc EXCEPT !.env = e2]
    ELSE rule_examples_run(acc, i, payload, LastRet(e2), e2)

\* new_id = response["udf_id"], then the examples request
rule_udf_posted(acc, i, payload, e2) ==
    IF e2.status # "ok" THEN [acc EXCEPT !.env = e2]
    ELSE rule_examples_run(acc, i, payload, LastRet(e2), run_examples(LastRet(e2), e2))

UdfKinds == {"UDF", "PROMPT_UDF"}

\* if rule.get("type") == "UDF" or rule.get("type") == "PROMPT_UDF"
rule_udf(acc, i, udfsD, env1, payload) ==
    IF RuleGet(acc.rules[i], "type", None) \notin UdfKinds
    THEN rule_appended(acc, env1, payload)
    ELSE IF "params" \notin DOMAIN acc.rules[i]
    THEN raised(acc, env1, "KeyError")
    ELSE IF ~DictHas(acc.rules[i].params, "udf_id")
    THEN raised(acc, env1, "KeyError")
    ELSE IF ~DictHas(udfsD, ToString(DictGet(acc.rules[i].params, "udf_id")))
    THEN raised(acc, env1, "KeyError")
    ELSE rule_udf_posted(acc, i, payload,
            post_udf(DictGet(udfsD, ToString(DictGet(acc.rules[i].params, "udf_id"))),
                     env1))

\* payload["params"]["affected_classes"] = <the rewritten list>
rule_classes_rewritten(acc, i, udfsD, env1, payload, ac) ==
    IF ac.status # "ok" THEN raised(acc, env1, ac.status)
    ELSE rule_udf([acc EXCEPT !.rules = SetParam(@, i, "affected_classes", ac.result)],
                  i, udfsD, env1,
                  [payload EXCEPT !.params = DictPut(@, "affected_classes", ac.result)])

\* a class-confidence rule processed without its classes being rewritten
rule_class_confidence_skipped(acc, i, udfsD, mappingsD, env1, payload) ==
    rule_udf(acc, i, udfsD, env1, payload)

\* if rule.get("type") == "CLASS_CONFIDENCE"
rule_class_confidence(acc, i, udfsD, mappingsD, env1, payload) ==
    IF RuleGet(acc.rules[i], "type", None) # "CLASS_CONFIDENCE"
    THEN rule_udf(acc, i, udfsD, env1, payload)
    ELSE IF ~DictHas(payload.params, "affected_classes")
    THEN raised(acc, env1, "KeyError")
    ELSE rule_classes_rewritten(acc, i, udfsD, env1, payload,
            update_fields_with_mapping(DictGet(payload.params, "affected_classes"),
                                       mappingsD))

\* "input_fields": update_fields_with_mapping(rule.get("input_fields", []), mappings)
rule_inputs_rewritten(acc, i, udfsD, mappingsD, env1, af, inf) ==
    IF inf.status # "ok" THEN raised(acc, env1, inf.status)
    ELSE rule_class_confidence(acc, i, udfsD, mappingsD, env1,
            base_payload(acc.rules[i], af.result, inf.result))

\* "affected_fields": update_fields_with_mapping(rule.get("affected_fields", []), mappings)
rule_fields_rewritten(acc, i, udfsD, mappingsD, env1, af) ==
    IF af.status # "ok" THEN raised(acc, env1, af.status)
    ELSE rule_inputs_rewritten(acc, i, udfsD, mappingsD, env1, af,
            update_fields_with_mapping(RuleGet(acc.rules[i], "input_fields", <<>>),
                                       mappingsD))

\* the rule once the target rule of its name, if any, was deleted
rule_deleted(acc, i, udfsD, mappingsD, env1) ==
    IF env1.status # "ok" THEN [acc EXCEPT !.env = env1]
    ELSE rule_fields_rewritten(acc, i, udfsD, mappingsD, env1,
            update_fields_with_mapping(RuleGet(acc.rules[i], "affected_fields", <<>>),
                                       mappingsD))

\* an iteration that rewrites the references and looks up the UDF before
\* it deletes: a rule that raises a KeyError has deleted nothing
rule_step_deleting_last(acc, i, names, udfsD, mappingsD) ==
    IF acc.env.status # "ok" THEN acc
    ELSE IF rule_deleted(acc, i, udfsD, mappingsD, acc.env).env.status = "KeyError"
    THEN rule_deleted(acc, i, udfsD, mappingsD, acc.env)
    ELSE rule_deleted(acc, i, udfsD, mappingsD,
            IF DictHas(names, RuleGet(acc.rules[i], "name", None))
            THEN delete_validations(DictGet(names, RuleGet(acc.rules[i], "name", None)),
                                    acc.env)
            ELSE acc.env)

\* one iteration of the loop over source_validations["rules"]. acc holds
\* payloads, env and rules (the source's rule objects).
rule_step(acc, i, names, udfsD, mappingsD) ==
    IF acc.env.status # "ok" THEN acc
    ELSE rule_deleted(acc, i, udfsD, mappingsD,
            IF DictHas(names, RuleGet(acc.rules[i], "name", None))
            THEN delete_validations(DictGet(names, RuleGet(acc.rules[i], "name", None)),
                                    acc.env)
            ELSE acc.env)

RECURSIVE modify_rules_from(_, _, _, _, _)
modify_rules_from(i, names, udfsD, mappingsD, acc) ==
    IF i > Len(acc.rules) THEN acc
    ELSE modify_rules_from(i + 1, names, udfsD, mappingsD,
                           rule_step(acc, i, names, udfsD, mappingsD))

\* return payloads, or the raise
validations_result(done) ==
    [status |-> done.env.status,
     payload |-> IF done.env.status = "ok" THEN done.payloads ELSE <<>>,
     env |-> done.env,
     src |-> [rules |-> done.rules]]

\* modify_validations(target_validations, source_validations, ..., udfs,
\* mappings): the payloads, or the exception raised; env and src are the
\* environment and the source validations object when it ends
modify_validations(target_v, source_v, udfsD, mappingsD, env) ==
    validations_result(
        modify_rules_from(1, names_from(target_v.rules, 1, <<>>), udfsD, mappingsD,
            [payloads |-> <<>>, env |-> env, rules |-> source_v.rules]))

----------------------------------------------------------------------------
(* modify_validations on bounded inputs *)

MaxRules == 2

RuleNames == {"Check Total", "Check Date"}

\* a record without keys
NoKeys == <<>>

\* the record r1 with the keys of r2 added
Merge(r1, r2) ==
    [key \in DOMAIN r1 \cup DOMAIN r2 |-> IF key \in DOMAIN r2 THEN r2[key] ELSE r1[key]]

\* the alert level goes with the name and the scope with the kind, so that
\* the rules of a sequence differ in them
BaseRule(name, type) ==
    [name |-> name, type |-> type,
     alert_level |-> IF name = "Check Total" THEN "ERROR" ELSE "WARNING",
     scope |-> IF type = "CLASS_CONFIDENCE" THEN "CLASS" ELSE "DOCUMENT"]

\* the references of a rule: field identifiers 3 and 4 of the source
ReferenceChoices ==
    { NoKeys,
      [affected_fields |-> <<3>>, description |-> "total is present"],
      [affected_fields |-> <<3, 4>>, input_fields |-> <<4>>] }

ParamsWith(key, value) == [params |-> <<[k |-> key, v |-> value]>>]

\* the params of a rule of the kind: class identifiers 2 and 3 (and 6, that
\* no mapping has), UDF identifiers 1 (and 2, that the UDFs lack)
ParamChoices(type) ==
    CASE type = "CLASS_CONFIDENCE" ->
           { NoKeys, ParamsWith("affected_classes", <<2>>),
             ParamsWith("affected_classes", <<3, 2>>),
             ParamsWith("affected_classes", <<2, 6>>) }
      [] type = "UDF" ->
           { ParamsWith("udf_id", 1), ParamsWith("udf_id", 2),
             [params |-> <<[k |-> "udf_id", v |-> 1],
                           [k |-> "affected_classes", v |-> <<2>>]>>] }
      [] type = "PROMPT_UDF" ->
           { NoKeys, ParamsWith("udf_id", 1) }
      [] OTHER ->
           { NoKeys, ParamsWith("udf_id", 1),
             ParamsWith("affected_classes", <<2>>) }

RuleKinds == {"FIELD_CONFIDENCE", "CLASS_CONFIDENCE", "UDF", "PROMPT_UDF"}

SourceRules ==
    UNION { { Merge(Merge(BaseRule(name, type), refs), params) :
                name \in RuleNames, refs \in ReferenceChoices,
                params \in ParamChoices(type) } :
            type \in RuleKinds }

\* the sequences of at most n elements of S
RECURSIVE SeqsUpTo(_, _)
SeqsUpTo(S, n) ==
    IF n = 0 THEN {<<>>}
    ELSE {<<>>} \cup {<<x>> \o rest : x \in S, rest \in SeqsUpTo(S, n - 1)}

SourceValidations == {[rules |-> rs] : rs \in SeqsUpTo(SourceRules, MaxRules)}

\* the i-th rule of the target has the i-th identifier
TargetRuleIds == <<9, 10, 11>>

TargetRule(id, name) == [id |-> id, name |-> name, type |-> "FIELD_CONFIDENCE"]

TargetValidations ==
    UNION { { [rules |-> [i \in 1..n |-> TargetRule(TargetRuleIds[i], nm[i])]] :
                nm \in [1..n -> RuleNames] } :
            n \in 0..Min(MaxRules, Len(TargetRuleIds)) }

IdMappings ==
    { <<[k |-> "2", v |-> "5"], [k |-> "3", v |-> "7"], [k |-> "4", v |-> "8"]>>,
      <<[k |-> "2", v |-> "5"], [k |-> "3", v |-> "7"]>>,
      <<[k |-> "2", v |-> "5"], [k |-> "3", v |-> "7"], [k |-> "4", v |-> TokenA]>> }

InitValidations ==
    /\ pc = "start"
    /\ target_validations \in TargetValidations
    /\ source_validations \in SourceValidations
    /\ source_validations_in = source_validations
    /\ mappings \in IdMappings
    /\ udfs = <<[k |-> "1", v |-> SanitizedUdf("normalize")]>>
    /\ result = NoResult
    /\ calls = <<>>
    /\ minted = <<>>
    /\ target_schema = <<>>
    /\ source_schema = <<>>
    /\ source_schema_in = <<>>
    /\ old_schema = <<>>
    /\ new_schema = <<>>
    /\ heap = <<>>
    /\ udfs_in = <<>>
    /\ schema_arg = <<>>
    /\ NotRunning

\* what the caller sees when modify_validations ends with r
ValidationsReturn(r) ==
    /\ result' = [status |-> r.status, payload |-> r.payload]
    /\ source_validations' = r.src
    /\ calls' = r.env.calls
    /\ pc' = IF r.status = "ok" THEN "returned" ELSE "raised"

\* the external calls one rule can make: a deletion, a creation, a trigger
CallsPerRule == 3

\* one call modify_validations(target_validations, source_validations, ...,
\* udfs, mappings)
CallModifyValidations ==
    /\ pc = "start"
    /\ \E failAt \in 0..(CallsPerRule * Len(source_validations.rules)) :
         \E failAs \in FailuresAt(failAt) :
            ValidationsReturn(modify_validations(target_validations, source_validations,
                                                 udfs, mappings,
                                                 Env0(failAt, failAs, 101, <<>>)))
    /\ UNCHANGED <<target_validations, source_validations_in, mappings, udfs,
                   minted, schema_args, map_args, sanitize_args, item_args, run_args>>

NextValidations == CallModifyValidations

SpecValidations == InitValidations /\ [][NextValidations]_vars

----------------------------------------------------------------------------
(* What the claims about modify_validations speak of *)

\* the source rules as passed in, the target rules, the payloads returned
SrcRules == source_validations_in.rules
TgtRules == target_validations.rules
Payloads == result.payload

\* some identifier of the list has no entry in the mapping
Unmapped(ids) == \E n \in 1..Len(ids) : ~DictHas(mappings, ToString(ids[n]))

HasParam(rule, key) == "params" \in DOMAIN rule /\ DictHas(rule.params, key)

\* a reference of the rule that the code rewrites has no entry
RefsUnmapped(rule) ==
    \/ Unmapped(RuleGet(rule, "affected_fields", <<>>))
    \/ Unmapped(RuleGet(rule, "input_fields", <<>>))
    \/ /\ rule.type = "CLASS_CONFIDENCE"
       /\ HasParam(rule, "affected_classes")
       /\ Unmapped(DictGet(rule.params, "affected_classes"))

\* C6: when an identifier in affected_fields or input_fields of a source
\* rule, or in params.affected_classes of a class-confidence rule, has no
\* entry in the mapping, modify_validations raises: it returns no payload,
\* for that rule or any other.
C6_UnmappedReferenceFails ==
    pc # "start" =>
    ( (\E i \in 1..Len(SrcRules) : RefsUnmapped(SrcRules[i])) =>
        /\ pc = "raised"
        /\ result.status # "ok"
        /\ Payloads = <<>> )

\* the call raised KeyError on the unmapped reference of the second rule,
\* after the first rule went through with its external calls
C6_Witness ==
    /\ pc = "raised"
    /\ result.status = "KeyError"
    /\ Len(SrcRules) = 2
    /\ ~RefsUnmapped(SrcRules[1])
    /\ RefsUnmapped(SrcRules[2])
    /\ Len(calls) > 0
    /\ \A c \in 1..Len(calls) : calls[c].ok

\* every identifier of the list has an image that is a number
Mapped(ids) ==
    \A n \in 1..Len(ids) :
        /\ DictHas(mappings, ToString(ids[n]))
        /\ IsNumeral(DictGet(mappings, ToString(ids[n])))

Image(ids) == [n \in 1..Len(ids) |-> int(DictGet(mappings, ToString(ids[n])))]

\* out is the element-wise image of ids
Rewritten(ids, out) == Mapped(ids) /\ out = Image(ids)

\* C7: in the payloads returned, for a source rule of any kind, the
\* affected_fields, the input_fields and the params.affected_classes are the
\* images under the mapping of those of the source rule.
C7_AllReferencesRewritten ==
    pc = "returned" =>
    \A i \in 1..Len(SrcRules) :
        /\ Rewritten(RuleGet(SrcRules[i], "affected_fields", <<>>),
                     Payloads[i].affected_fields)
        /\ Rewritten(RuleGet(SrcRules[i], "input_fields", <<>>),
                     Payloads[i].input_fields)
        /\ HasParam(SrcRules[i], "affected_classes") =>
            /\ DictHas(Payloads[i].params, "affected_classes")
            /\ Rewritten(DictGet(SrcRules[i].params, "affected_classes"),
                         DictGet(Payloads[i].params, "affected_classes"))

\* the two lists of field identifiers of a rule, an absent one being empty
FieldLists(rule) ==
    {RuleGet(rule, "affected_fields", <<>>), RuleGet(rule, "input_fields", <<>>)}

\* C14: update_fields_with_mapping, on a list whose elements all have an
\* entry in the mapping, returns the list of their images, in the same
\* order and of the same length; modify_validations puts that list in
\* affected_fields and in input_fields of every payload, an absent list
\* of the source rule giving an empty one.
C14_MappedFieldsRewritten ==
    /\ pc # "start" =>
         \A i \in 1..Len(SrcRules) : \A fields \in FieldLists(SrcRules[i]) :
            ~Unmapped(fields) =>
                /\ update_fields_with_mapping(fields, mappings).status = "ok"
                /\ Len(update_fields_with_mapping(fields, mappings).result) = Len(fields)
                /\ update_fields_with_mapping(fields, mappings).result = Image(fields)
    /\ pc = "returned" =>
         \A i \in 1..Len(SrcRules) :
            /\ Payloads[i].affected_fields =
                 update_fields_with_mapping(
                     RuleGet(SrcRules[i], "affected_fields", <<>>), mappings).result
            /\ Payloads[i].input_fields =
                 update_fields_with_mapping(
                     RuleGet(SrcRules[i], "input_fields", <<>>), mappings).result

\* C15: in the payloads returned, the payload of a source rule of kind
\* CLASS_CONFIDENCE has params.affected_classes equal to the element-wise
\* image, under the mapping used for the fields, of the source rule's
\* params.affected_classes.
C15_AffectedClassesRewritten ==
    pc = "returned" =>
    \A i \in 1..Len(SrcRules) :
        SrcRules[i].type = "CLASS_CONFIDENCE" =>
            /\ HasParam(SrcRules[i], "affected_classes")
            /\ DictHas(Payloads[i].params, "affected_classes")
            /\ Rewritten(DictGet(SrcRules[i].params, "affected_classes"),
                         DictGet(Payloads[i].params, "affected_classes"))

\* affected_classes [2] gave [5] and [3, 2] gave [7, 5]
C15_Witness ==
    /\ pc = "returned"
    /\ Len(SrcRules) = 2
    /\ \A i \in 1..2 : SrcRules[i].type = "CLASS_CONFIDENCE"
    /\ DictGet(SrcRules[1].params, "affected_classes") = <<2>>
    /\ DictGet(Payloads[1].params, "affected_classes") = <<5>>
    /\ DictGet(SrcRules[2].params, "affected_classes") = <<3, 2>>
    /\ DictGet(Payloads[2].params, "affected_classes") = <<7, 5>>

\* the positions, in order, of the source rules of a UDF kind, and of the
\* createUdf calls
UdfRules ==
    SelectSeq([i \in 1..Len(SrcRules) |-> i], LAMBDA i : SrcRules[i].type \in UdfKinds)
Creates ==
    SelectSeq([c \in 1..Len(calls) |-> c], LAMBDA c : calls[c].op = "createUdf")
Triggers ==
    SelectSeq([c \in 1..Len(calls) |-> c], LAMBDA c : calls[c].op = "runExamples")

\* C20: when modify_validations returns, the k-th source rule of kind UDF
\* or PROMPT_UDF has caused the k-th createUdf call, with the UDF stored in
\* udfs under the rule's params.udf_id, followed at once by the examples
\* request for the identifier that call returned, and its payload has
\* params.udf_id equal to that identifier; there is no other createUdf call
\* or examples request, and the payload of a rule of another kind has
\* params.udf_id as the source rule has it, or not at all.
C20_UdfRulesRecreated ==
    pc = "returned" =>
        /\ Len(Creates) = Len(UdfRules)
        /\ Len(Triggers) = Len(UdfRules)
        /\ \A k \in 1..Len(UdfRules) :
             /\ calls[Creates[k]].ok
             /\ calls[Creates[k]].arg =
                  DictGet(udfs, ToString(DictGet(SrcRules[UdfRules[k]].params, "udf_id")))
             /\ Triggers[k] = Creates[k] + 1
             /\ calls[Triggers[k]].arg = calls[Creates[k]].ret
             /\ DictGet(Payloads[UdfRules[k]].params, "udf_id") = calls[Creates[k]].ret
        /\ \A i \in 1..Len(SrcRules) :
             SrcRules[i].type \notin UdfKinds =>
                IF HasParam(SrcRules[i], "udf_id")
                THEN /\ DictHas(Payloads[i].params, "udf_id")
                     /\ DictGet(Payloads[i].params, "udf_id") =
                          DictGet(SrcRules[i].params, "udf_id")
                ELSE ~DictHas(Payloads[i].params, "udf_id")

\* a rule of kind UDF and one of kind PROMPT_UDF, both on UDF 1, got UDFs
\* 101 and 102
C20_Witness ==
    /\ pc = "returned"
    /\ Len(SrcRules) = 2
    /\ SrcRules[1].type = "UDF"
    /\ SrcRules[2].type = "PROMPT_UDF"
    /\ DictGet(Payloads[1].params, "udf_id") = 101
    /\ DictGet(Payloads[2].params, "udf_id") = 102
    /\ Len(calls) = 4

\* the keys a payload takes from its rule as they are
CarriedKeys == {"name", "type", "alert_level", "scope"}

\* the payload is the one of the rule
PayloadOf(payload, rule) ==
    /\ \A key \in CarriedKeys : payload[key] = rule[key]
    /\ payload.description =
         (IF "description" \in DOMAIN rule THEN rule.description ELSE "")
    /\ payload.projectId = project_id

\* C24: when modify_validations returns, it returns as many payloads as
\* there are source rules, and the i-th payload has the name, the type, the
\* alert level and the scope of the i-th source rule, and its description,
\* or the empty string if the rule has none; a rule of the target brings
\* no payload.
C24_OnePayloadPerSourceRule ==
    pc = "returned" =>
        /\ Len(Payloads) = Len(SrcRules)
        /\ \A i \in 1..Len(SrcRules) : PayloadOf(Payloads[i], SrcRules[i])

\* two payloads for two rules that differ in kind and scope, the first
\* with a description and the second without, while the target has a rule
\* of another name
C24_Witness ==
    /\ pc = "returned"
    /\ Len(Payloads) = 2
    /\ Payloads[1].type # Payloads[2].type
    /\ Payloads[1].scope # Payloads[2].scope
    /\ Payloads[1].description = "total is present"
    /\ "description" \notin DOMAIN SrcRules[2]
    /\ Payloads[2].description = ""
    /\ Len(TgtRules) = 1
    /\ \A i \in 1..2 : TgtRules[1].name # SrcRules[i].name

\* C27: when modify_validations has ended, by returning or by raising,
\* the source validations it was given are as they were passed in: the
\* params of every rule hold the affected_classes and the udf_id of the
\* source, and only the payloads hold the rewritten ones.
C27_SourceValidationsUnchanged ==
    pc \in {"returned", "raised"} => source_validations = source_validations_in

\* the arguments of the deleteValidation calls, in the order of the calls
DeletedIds ==
    LET dels == SelectSeq(calls, LAMBDA c : c.op = "deleteValidation")
    IN  [n \in 1..Len(dels) |-> dels[n].arg]

RuleNamesOf(rules) == {rules[i].name : i \in 1..Len(rules)}

\* the source rules whose name a target rule has
Colliding == {i \in 1..Len(SrcRules) : SrcRules[i].name \in RuleNamesOf(TgtRules)}

\* no later rule of the target has the name of the t-th
LastTargetRule(t) ==
    \A u \in (t + 1)..Len(TgtRules) : TgtRules[u].name # TgtRules[t].name

\* C8 as stated: when the payloads are returned, deleteValidation was
\* invoked with the identifier of every target rule that has the name of a
\* source rule, once per source rule of a colliding name, and with no
\* other identifier.
C8_Original ==
    pc = "returned" =>
    /\ \A i \in Colliding : \A t \in 1..Len(TgtRules) :
        TgtRules[t].name = SrcRules[i].name => TgtRules[t].id \in Range(DeletedIds)
    /\ \A d \in Range(DeletedIds) :
        \E t \in 1..Len(TgtRules) :
            TgtRules[t].id = d /\ TgtRules[t].name \in RuleNamesOf(SrcRules)
    /\ (Colliding = {}) => (DeletedIds = <<>>)

\* the identifier deleteValidation gets for a source rule of a colliding name
LastIdOfName(name) ==
    TgtRules[CHOOSE t \in 1..Len(TgtRules) :
                TgtRules[t].name = name /\ LastTargetRule(t)].id

RECURSIVE ExpectedDeletions(_)
ExpectedDeletions(i) ==
    IF i = 0 THEN <<>>
    ELSE IF i \in Colliding
    THEN Append(ExpectedDeletions(i - 1), LastIdOfName(SrcRules[i].name))
    ELSE ExpectedDeletions(i - 1)

\* C8 (amended): when the payloads are returned, the deleteValidation calls
\* issued are, in the order of the source rules, one per source rule whose
\* name a target rule has, with the identifier of the last target rule of
\* that name; a source rule whose name no target rule has causes none, and
\* an earlier target rule of a duplicated name is not deleted.
C8_DeletesCollidingRuleFirst ==
    pc = "returned" =>
    /\ DeletedIds = ExpectedDeletions(Len(SrcRules))
    /\ \A c \in 1..Len(calls) : calls[c].op = "deleteValidation" => calls[c].ok
    /\ Len(Payloads) = Len(SrcRules)

\* payloads returned for a rule whose name the target has, with its
\* deletion issued, and for a rule whose name the target lacks
C8_Witness ==
    /\ pc = "returned"
    /\ Len(SrcRules) = 2
    /\ Cardinality(Colliding) = 1
    /\ Len(DeletedIds) = 1
    /\ Len(TgtRules) = 2
    /\ Len(calls) > 1

\* the rule names a UDF that udfs lacks
UdfMissing(rule) ==
    /\ rule.type \in UdfKinds
    /\ HasParam(rule, "udf_id")
    /\ ~DictHas(udfs, ToString(DictGet(rule.params, "udf_id")))

\* the reconciliation of the rule raises, whatever the target answers
Raises(rule) ==
    \/ ~Mapped(RuleGet(rule, "affected_fields", <<>>))
    \/ ~Mapped(RuleGet(rule, "input_fields", <<>>))
    \/ /\ rule.type = "CLASS_CONFIDENCE"
       /\ (~HasParam(rule, "affected_classes")
             \/ ~Mapped(DictGet(rule.params, "affected_classes")))
    \/ /\ rule.type \in UdfKinds
       /\ (~HasParam(rule, "udf_id") \/ UdfMissing(rule))

\* the call has raised a KeyError at the k-th source rule, for an unmapped
\* reference or a missing UDF, and a rule of the target has its name
FailedAt(k) ==
    /\ pc = "raised"
    /\ result.status = "KeyError"
    /\ k \in 1..Len(SrcRules)
    /\ Raises(SrcRules[k])
    /\ \A i \in 1..(k - 1) : ~Raises(SrcRules[i])
    /\ RefsUnmapped(SrcRules[k]) \/ UdfMissing(SrcRules[k])
    /\ k \in Colliding

\* the identifiers of the target rules the target has deleted
DeletedOnTarget ==
    {calls[c].arg : c \in {x \in 1..Len(calls) :
                              calls[x].op = "deleteValidation" /\ calls[x].ok}}

\* C28 as stated: when the reconciliation of a source rule fails with an
\* unmapped reference or a missing UDF and the target has a rule of its
\* name, the deletion was the last call before the failure and the target
\* is left with no rule of that name.
C28_Original ==
    \A k \in 1..Len(SrcRules) :
       FailedAt(k) =>
          /\ Len(calls) > 0
          /\ calls[Len(calls)].op = "deleteValidation"
          /\ \A t \in 1..Len(TgtRules) :
               TgtRules[t].name = SrcRules[k].name => TgtRules[t].id \in DeletedOnTarget

\* C28 (amended): when the reconciliation of a source rule fails with an
\* unmapped reference or a missing UDF and the target has a rule of its
\* name, the last call before the failure is the accepted deletion of the
\* last target rule of that name, so that rule is gone from the target; an
\* earlier target rule of a duplicated name is deleted by no call.
C28_DeletedBeforeFailure ==
    \A k \in 1..Len(SrcRules) :
       FailedAt(k) =>
          /\ Len(calls) > 0
          /\ calls[Len(calls)].op = "deleteValidation"
          /\ calls[Len(calls)].ok
          /\ calls[Len(calls)].arg = LastIdOfName(SrcRules[k].name)
          /\ \A t \in 1..Len(TgtRules) :
               ~LastTargetRule(t) => TgtRules[t].id \notin DeletedOnTarget

\* the second source rule names UDF 2, which udfs lacks, after a first
\* rule that went through; the target has two rules of its name, 9 and 10,
\* and the last call is the deletion of 10
C28_Witness ==
    /\ FailedAt(2)
    /\ UdfMissing(SrcRules[2])
    /\ ~RefsUnmapped(SrcRules[2])
    /\ Len(TgtRules) = 2
    /\ TgtRules[1].name = SrcRules[2].name
    /\ TgtRules[2].name = SrcRules[2].name
    /\ calls[Len(calls)] = [op |-> "deleteValidation", arg |-> 10, ret |-> 0, ok |-> TRUE]
    /\ DeletedOnTarget = {10}

\* C29: in one call of modify_validations no two deleteValidation calls
\* have the same identifier, and every deleteValidation call has the
\* identifier of a target rule whose name a source rule has.
C29_DeletesEachRuleOnce ==
    /\ \A c, d \in 1..Len(DeletedIds) : c # d => DeletedIds[c] # DeletedIds[d]
    /\ \A d \in Range(DeletedIds) :
         \E t \in 1..Len(TgtRules) :
            TgtRules[t].id = d /\ TgtRules[t].name \in RuleNamesOf(SrcRules)

----------------------------------------------------------------------------
(* map_field_ids *)

\* a field whose name the new class lacks is mapped to the empty string
map_field_step_sentinel(field_id_mapping, old_field_name, old_field_id, new_fields) ==
    DictPut(field_id_mapping, old_field_id,
            IF DictHas(new_fields, old_field_name)
            THEN DictGet(new_fields, old_field_name) ELSE "")

\* if old_field_name in new_fields:
\*     field_id_mapping[old_field_id] = new_fields[old_field_name]
map_field_step(field_id_mapping, old_field_name, old_field_id, new_fields) ==
    IF DictHas(new_fields, old_field_name)
    THEN DictPut(field_id_mapping, old_field_id, DictGet(new_fields, old_field_name))
    ELSE field_id_mapping

RECURSIVE map_fields_from(_, _, _, _)
map_fields_from(old_fields, i, new_fields, field_id_mapping) ==
    IF i > Len(old_fields) THEN field_id_mapping
    ELSE map_fields_from(old_fields, i + 1, new_fields,
            map_field_step(field_id_mapping, old_fields[i].k, old_fields[i].v,
                           new_fields))

\* one iteration of the loop over the old classes: the class identifier is
\* mapped, then the fields, all in the one flat mapping
map_class_step(field_id_mapping, old_class_name, old_class_id, new_classes, old, new) ==
    IF DictHas(new_classes, old_class_name)
    THEN map_fields_from(
            get_item_ids(DictGet(old, old_class_id).fields), 1,
            get_item_ids(DictGet(new, DictGet(new_classes, old_class_name)).fields),
            DictPut(field_id_mapping, old_class_id, DictGet(new_classes, old_class_name)))
    ELSE field_id_mapping

RECURSIVE map_classes_from(_, _, _, _, _, _)
map_classes_from(old_classes, i, new_classes, old, new, field_id_mapping) ==
    IF i > Len(old_classes) THEN field_id_mapping
    ELSE map_classes_from(old_classes, i + 1, new_classes, old, new,
            map_class_step(field_id_mapping, old_classes[i].k, old_classes[i].v,
                           new_classes, old, new))

\* map_field_ids(old_schema, new_schema): the dict old id -> new id
map_field_ids(old, new) ==
    map_classes_from(get_item_ids(old), 1, get_item_ids(new), old, new, <<>>)

----------------------------------------------------------------------------
(* map_field_ids on bounded inputs *)

\* old schemas whose field keys are their own in each class, and old
\* schemas whose field keys repeat the class keys and one another
OldSchemas ==
    Schemas(<<"1", "2", "3">>,
            << <<"11", "12", "13">>, <<"21", "22", "23">>, <<"31", "32", "33">> >>,
            {<<>>}, "from source")
    \cup
    Schemas(<<"1", "2", "3">>, SameKeys(<<"1", "2", "3">>), {<<>>}, "from source")

NewSchemas ==
    { WithMeta(s) : s \in Schemas(<<"5", "6", "7">>,
                                  << <<"7", "8", "9">>, <<"17", "18", "19">>,
                                     <<"27", "28", "29">> >>,
                                  {<<>>}, "from source") }

InitMap ==
    /\ pc = "start"
    /\ old_schema \in OldSchemas
    /\ new_schema \in NewSchemas
    /\ result = NoResult
    /\ calls = <<>>
    /\ minted = <<>>
    /\ udfs = <<>>
    /\ target_schema = <<>>
    /\ source_schema = <<>>
    /\ source_schema_in = <<>>
    /\ target_validations = NoRules
    /\ source_validations = NoRules
    /\ source_validations_in = NoRules
    /\ mappings = <<>>
    /\ heap = <<>>
    /\ udfs_in = <<>>
    /\ schema_arg = <<>>
    /\ NotRunning

\* one call map_field_ids(old_schema, new_schema)
CallMapFieldIds ==
    /\ pc = "start"
    /\ result' = [status |-> "ok", payload |-> map_field_ids(old_schema, new_schema)]
    /\ pc' = "returned"
    /\ UNCHANGED <<map_args, schema_args, validation_args, udfs, calls, minted,
                   sanitize_args, item_args, run_args>>

NextMap == CallMapFieldIds

SpecMap == InitMap /\ [][NextMap]_vars

----------------------------------------------------------------------------
(* What the claims about map_field_ids speak of *)

OldClasses == Entities(old_schema)
NewClasses == Entities(new_schema)
Mapping == result.payload

\* the entry old id k -> new id v is the one of a class of the old schema
\* and a class of the new schema that have the same name
ClassEntryFor(k, v) ==
    \E oi \in 1..Len(OldClasses), ni \in 1..Len(NewClasses) :
        /\ OldClasses[oi].v.name = NewClasses[ni].v.name
        /\ OldClasses[oi].k = k
        /\ NewClasses[ni].k = v

\* the entry is the one of two fields of the same name, in two classes of
\* the same name
FieldEntryFor(k, v) ==
    \E oi \in 1..Len(OldClasses), ni \in 1..Len(NewClasses) :
        /\ OldClasses[oi].v.name = NewClasses[ni].v.name
        /\ \E oj \in 1..Len(FieldsOf(OldClasses[oi])),
              nj \in 1..Len(FieldsOf(NewClasses[ni])) :
            /\ FieldsOf(OldClasses[oi])[oj].v.name = FieldsOf(NewClasses[ni])[nj].v.name
            /\ FieldsOf(OldClasses[oi])[oj].k = k
            /\ FieldsOf(NewClasses[ni])[nj].k = v

Sentinels == {"", "None", "null"}

\* C9: every entry of the mapping is the entry of a class whose name is in
\* both schemas or of a field whose name is in both of two classes of the
\* same name; an entity whose name is on one side only gives no entry, and
\* no entry has a sentinel for its value.
C9_OnlyCommonNames ==
    pc = "returned" =>
    \A e \in 1..Len(Mapping) :
        /\ ClassEntryFor(Mapping[e].k, Mapping[e].v) \/ FieldEntryFor(Mapping[e].k, Mapping[e].v)
        /\ Mapping[e].v \notin Sentinels
        /\ Mapping[e].k \notin MetaKeys

\* a mapping with a class entry and a field entry, from schemas where a
\* field of the old schema has no counterpart in the class of its name and
\* the new schema has a class of its own
C9_Witness ==
    /\ pc = "returned"
    /\ Len(Mapping) >= 2
    /\ \E ni \in 1..Len(NewClasses) : NewClasses[ni].v.name \notin NamesOf(OldClasses)
    /\ \E oi \in 1..Len(OldClasses), ni \in 1..Len(NewClasses) :
        /\ OldClasses[oi].v.name = NewClasses[ni].v.name
        /\ \E oj \in 1..Len(FieldsOf(OldClasses[oi])) :
            FieldsOf(OldClasses[oi])[oj].v.name \notin NamesOf(FieldsOf(NewClasses[ni]))

\* the mapping has the entry k -> v
Maps(k, v) == DictHas(Mapping, k) /\ DictGet(Mapping, k) = v

\* C10: for every class name in both schemas the mapping takes the old
\* class identifier to the new one, and for every field name in both of
\* those classes it takes the old field identifier to the new one, also
\* when identifiers of the old schema repeat across the two levels or
\* across classes. (Stated for the entities the name indexes keep, the
\* reading most favourable to the claim.)
C10_CoversBothLevels ==
    pc = "returned" =>
    \A oi \in LastIndices(OldClasses), ni \in LastIndices(NewClasses) :
        OldClasses[oi].v.name = NewClasses[ni].v.name =>
        /\ Maps(OldClasses[oi].k, NewClasses[ni].k)
        /\ \A oj \in LastIndices(FieldsOf(OldClasses[oi])),
              nj \in LastIndices(FieldsOf(NewClasses[ni])) :
            FieldsOf(OldClasses[oi])[oj].v.name = FieldsOf(NewClasses[ni])[nj].v.name =>
            Maps(FieldsOf(OldClasses[oi])[oj].k, FieldsOf(NewClasses[ni])[nj].k)

----------------------------------------------------------------------------
(***************************************************************************)
(* sanitize_udf_payload.  A Python object lives at an address of the heap: *)
(* a mapping is  [map |-> entries]  whose values are addresses, a UDF is   *)
(* [udf |-> record].  Two names alias when they hold the same address.     *)
(***************************************************************************)

MaxUdfs == 2

fields_to_remove ==
    <<"docstring", "last_updated_at", "lambda_id", "lambda_udf_id", "lambda_end_of_life">>

\* function_data.pop(field, None): no error when the field is absent
pop(function_data, field) ==
    [f \in DOMAIN function_data \ {field} |-> function_data[f]]

RECURSIVE pop_fields_from(_, _)
pop_fields_from(function_data, i) ==
    IF i > Len(fields_to_remove) THEN function_data
    ELSE pop_fields_from(pop(function_data, fields_to_remove[i]), i + 1)

\* d[key] = value
SetItem(d, key, value) ==
    [f \in DOMAIN d \cup {key} |-> IF f = key THEN value ELSE d[f]]

\* a cleaning that forgets the last statement
clean_keeping_return_type(function_data) ==
    pop_fields_from(function_data, 1)

\* the dict function_data after clean_function_data(function_data)
clean_function_data(function_data) ==
    SetItem(pop_fields_from(function_data, 1), "return_type", "string")

\* a copy of the mapping only: its values are the objects of the original
shallow_copy(a, h) ==
    [heap |-> Append(h, [map |-> h[a].map]), ret |-> Len(h) + 1]

RECURSIVE copy_items_from(_, _, _, _)
copy_items_from(items, i, h, acc) ==
    IF i > Len(items) THEN [heap |-> h, items |-> acc]
    ELSE copy_items_from(items, i + 1, Append(h, h[items[i].v]),
                         Append(acc, [k |-> items[i].k, v |-> Len(h) + 1]))

copy_stored(c) ==
    [heap |-> Append(c.heap, [map |-> c.items]), ret |-> Len(c.heap) + 1]

\* copy.deepcopy of the mapping at address a: new objects all the way down
deepcopy(a, h) ==
    copy_stored(copy_items_from(h[a].map, 1, h, <<>>))

\* for function_id in payload: clean_function_data(payload[function_id])
RECURSIVE clean_from(_, _, _)
clean_from(items, i, h) ==
    IF i > Len(items) THEN h
    ELSE clean_from(items, i + 1,
                    [h EXCEPT ![items[i].v] = [udf |-> clean_function_data(@.udf)]])

sanitize_cleaned(c) ==
    [heap |-> clean_from(c.heap[c.ret].map, 1, c.heap), ret |-> c.ret]

\* sanitize_udf_payload(result), result being the mapping at address fetched
sanitize_udf_payload(fetched, h) ==
    sanitize_cleaned(deepcopy(fetched, h))

\* the dict at address a, by value
ValueAt(h, a) ==
    [i \in 1..Len(h[a].map) |-> [k |-> h[a].map[i].k, v |-> h[h[a].map[i].v].udf]]

(***************************************************************************)
(* The UDFs get_udfs fetched: every UDF has a name and a body, and may     *)
(* have any of the fields the cleaning removes and a return type.          *)
(***************************************************************************)
VolatileValues ==
    [docstring |-> "test", last_updated_at |-> "2023-01-01", lambda_id |-> "123",
     lambda_udf_id |-> "456", lambda_end_of_life |-> "2024-01-01"]

VolatileChoices ==
    { {}, {"docstring"}, {"lambda_id", "lambda_udf_id"},
      {"last_updated_at", "lambda_end_of_life"}, DOMAIN VolatileValues }

ReturnTypeChoices ==
    { NoKeys, [return_type |-> "string"], [return_type |-> "int"] }

FetchedUdf(volatile, return_type) ==
    Merge(Merge([name |-> "normalize", code |-> "def f(): pass"],
                [f \in volatile |-> VolatileValues[f]]), return_type)

FetchedUdfRecords ==
    { FetchedUdf(volatile, return_type) :
        volatile \in VolatileChoices, return_type \in ReturnTypeChoices }

FetchedUdfs ==
    UNION { { [i \in 1..n |-> [k |-> ToString(i), v |-> us[i]]] :
                us \in [1..n -> FetchedUdfRecords] } : n \in 0..MaxUdfs }

\* the caller's mapping is the first object, its UDFs follow
FetchedAddr == 1

Allocated(u) ==
    <<[map |-> [i \in 1..Len(u) |-> [k |-> u[i].k, v |-> i + 1]]]>>
        \o [i \in 1..Len(u) |-> [udf |-> u[i].v]]

InitSanitize ==
    /\ pc = "start"
    /\ udfs_in \in FetchedUdfs
    /\ heap = Allocated(udfs_in)
    /\ udfs = <<>>
    /\ result = NoResult
    /\ calls = <<>>
    /\ minted = <<>>
    /\ target_schema = <<>>
    /\ source_schema = <<>>
    /\ source_schema_in = <<>>
    /\ target_validations = NoRules
    /\ source_validations = NoRules
    /\ source_validations_in = NoRules
    /\ mappings = <<>>
    /\ old_schema = <<>>
    /\ new_schema = <<>>
    /\ schema_arg = <<>>
    /\ NotRunning

SanitizeReturns(r) ==
    /\ heap' = r.heap
    /\ result' = [status |-> "ok", payload |-> r.ret]
    /\ pc' = "returned"

\* sanitized_udfs = sanitize_udf_payload(udfs)
CallSanitize ==
    /\ pc = "start"
    /\ SanitizeReturns(sanitize_udf_payload(FetchedAddr, heap))
    /\ UNCHANGED <<udfs_in, udfs, calls, minted, schema_args, validation_args, map_args, item_args, run_args>>

\* what a holder of the returned mapping can write into one of its UDFs
WrittenFields == {"code", "return_type", "docstring"}

\* the holder of the returned mapping writes a field of one of its UDFs
\* (payload[key][field] = "changed") ...
ChangeResultField ==
    /\ pc = "returned"
    /\ \E i \in 1..Len(heap[result.payload].map), field \in WrittenFields :
         heap' = [heap EXCEPT ![heap[result.payload].map[i].v] =
                                [udf |-> SetItem(@.udf, field, "changed")]]
    /\ pc' = "changed"
    /\ UNCHANGED <<udfs_in, udfs, result, calls, minted, schema_args,
                   validation_args, map_args, item_args, run_args>>

\* ... or removes one of its entries (del payload[key])
ChangeResultKeys ==
    /\ pc = "returned"
    /\ \E i \in 1..Len(heap[result.payload].map) :
         heap' = [heap EXCEPT ![result.payload] =
                    [map |-> SubSeq(@.map, 1, i - 1)
                               \o SubSeq(@.map, i + 1, Len(@.map))]]
    /\ pc' = "changed"
    /\ UNCHANGED <<udfs_in, udfs, result, calls, minted, schema_args,
                   validation_args, map_args, item_args, run_args>>

NextSanitize == CallSanitize \/ ChangeResultField \/ ChangeResultKeys

SpecSanitize == InitSanitize /\ [][NextSanitize]_vars

\* claim vocabulary
Fetched == ValueAt(heap, FetchedAddr)
Sanitized == ValueAt(heap, result.payload)
Has(d, field) == field \in DOMAIN d

\* C11: sanitize_udf_payload never mutates its argument: once it has
\* returned, the mapping passed in and every UDF in it equal what they were
\* before the call, and they still do after the returned mapping was changed.
C11_InputUntouched ==
    pc \in {"returned", "changed"} => Fetched = udfs_in

C11_Witness ==
    /\ pc = "changed"
    /\ Len(udfs_in) = MaxUdfs
    /\ Sanitized # [i \in 1..Len(udfs_in) |->
                      [k |-> udfs_in[i].k, v |-> clean_function_data(udfs_in[i].v)]]
    /\ \E i \in 1..Len(udfs_in) :
         /\ \A field \in DOMAIN VolatileValues : Has(udfs_in[i].v, field)
         /\ Has(udfs_in[i].v, "return_type")
         /\ udfs_in[i].v.return_type = "int"

\* C12: the returned mapping has the keys of the input; every UDF in it has
\* return_type "string" whatever it was (or absent), none of the removed
\* fields, and every other field as in the input; the call always returns.
C12_SanitizedPayload ==
    /\ pc = "returned" =>
         /\ DictKeys(Sanitized) = DictKeys(udfs_in)
         /\ \A i \in 1..Len(udfs_in) :
              /\ Has(Sanitized[i].v, "return_type")
              /\ Sanitized[i].v.return_type = "string"
              /\ \A field \in Range(fields_to_remove) : ~Has(Sanitized[i].v, field)
              /\ DOMAIN Sanitized[i].v =
                   (DOMAIN udfs_in[i].v \ Range(fields_to_remove)) \cup {"return_type"}
              /\ \A field \in DOMAIN Sanitized[i].v \ {"return_type"} :
                   Sanitized[i].v[field] = udfs_in[i].v[field]
    /\ pc # "start" => result.status = "ok"

C12_Witness ==
    /\ pc = "returned"
    /\ Len(udfs_in) = MaxUdfs
    /\ ~Has(udfs_in[1].v, "return_type")
    /\ DOMAIN udfs_in[1].v = {"name", "code"}
    /\ Has(udfs_in[2].v, "return_type")
    /\ udfs_in[2].v.return_type = "int"
    /\ \A field \in DOMAIN VolatileValues : Has(udfs_in[2].v, field)

----------------------------------------------------------------------------
(***************************************************************************)
(* get_item_ids on bounded containers: entities under numeric keys, each   *)
(* with a name, and the two metadata keys, whose values are no entities.   *)
(***************************************************************************)

MaxItems == 4

ItemNames == {"test1", "test2"}

ItemEntries(i) ==
    { [k |-> ToString(i), v |-> [name |-> name]] : name \in ItemNames }
        \cup { MetaEntry(key) : key \in MetaKeys }

\* the keys of a dict are pairwise distinct
DistinctKeys(d) == \A i, j \in 1..Len(d) : d[i].k = d[j].k => i = j

Containers ==
    UNION { { c \in [1..n -> UNION { ItemEntries(i) : i \in 1..n }] :
                /\ \A i \in 1..n : c[i] \in ItemEntries(i)
                /\ DistinctKeys(c) } : n \in 0..MaxItems }

InitItems ==
    /\ pc = "start"
    /\ schema_arg \in Containers
    /\ result = NoResult
    /\ calls = <<>>
    /\ minted = <<>>
    /\ udfs = <<>>
    /\ target_schema = <<>>
    /\ source_schema = <<>>
    /\ source_schema_in = <<>>
    /\ target_validations = NoRules
    /\ source_validations = NoRules
    /\ source_validations_in = NoRules
    /\ mappings = <<>>
    /\ old_schema = <<>>
    /\ new_schema = <<>>
    /\ heap = <<>>
    /\ udfs_in = <<>>
    /\ NotRunning

\* one call get_item_ids(schema)
CallGetItemIds ==
    /\ pc = "start"
    /\ result' = [status |-> "ok", payload |-> get_item_ids(schema_arg)]
    /\ pc' = "returned"
    /\ UNCHANGED <<item_args, schema_args, validation_args, map_args, sanitize_args,
                   udfs, calls, minted, run_args>>

NextItems == CallGetItemIds

SpecItems == InitItems /\ [][NextItems]_vars

\* claim vocabulary
Items == result.payload
EntityNames == {e.v.name : e \in Range(Entities(schema_arg))}
KeysNamed(name) == {e.k : e \in {x \in Range(Entities(schema_arg)) : x.v.name = name}}
Position(key) == CHOOSE i \in 1..Len(schema_arg) : schema_arg[i].k = key

\* C13: get_item_ids returns one entry name -> key per name borne by an
\* entity of the container, its value the key of an entity of that name
\* (the last one when several share it); no metadata key is a value of the
\* result, and the result is what it is without the metadata entries.
C13_IndexesEntitiesOnly ==
    pc = "returned" =>
        /\ DistinctKeys(Items)
        /\ DictKeys(Items) = EntityNames
        /\ \A name \in EntityNames :
             /\ DictGet(Items, name) \in KeysNamed(name)
             /\ \A key \in KeysNamed(name) :
                  Position(key) <= Position(DictGet(Items, name))
        /\ \A i \in 1..Len(Items) : Items[i].v \notin MetaKeys
        /\ Items = get_item_ids(Entities(schema_arg))

C13_Witness ==
    /\ pc = "returned"
    /\ Len(Items) = 2
    /\ MetaKeys \subseteq DictKeys(schema_arg)
    /\ schema_arg[1].k \in MetaKeys
    /\ schema_arg[Len(schema_arg)].k \notin MetaKeys

----------------------------------------------------------------------------
(***************************************************************************)
(* rebuild_project (src/ib_cicd/promote_build_solution.py): one run of the *)
(* promotion, statement by statement, against a target environment that    *)
(* stores a schema and validation rules and assigns identifiers.  The      *)
(* configuration names the target project, so none is created.  main       *)
(* calls rebuild_project for --create_build_project and deletes the build  *)
(* project afterwards unless --rebuild is given, or for --delete_build.    *)
(***************************************************************************)

MaxRuns == 2

\* the invocations of main in a behaviour, those on a deleted project included
MaxInvocations == 3

\* an external call of rebuild_project itself, as the call log holds it
Call(op, arg, ret, ok) == [op |-> op, arg |-> arg, ret |-> ret, ok |-> ok]

\* except Exception as e: raise Exception("Something went wrong ...: {e}.")
Raise(cause) ==
    /\ pc' = "raised"
    /\ result' = [status |-> "Exception", cause |-> cause]

\* the target stores the fields of new_fields under identifiers of its own
RECURSIVE persist_new_fields(_, _, _)
persist_new_fields(stored, new_fields, i) ==
    IF i > Len(new_fields) THEN stored
    ELSE persist_new_fields(
            [stored EXCEPT
               !.fields = DictPut(@, ToString(stored.next_id),
                                  [name |-> new_fields[i].name,
                                   lines |-> new_fields[i].lines]),
               !.next_id = @ + 1],
            new_fields, i + 1)

\* the target stores the fields of classes[cid].fields under their keys
RECURSIVE persist_fields(_, _, _)
persist_fields(stored, fields, i) ==
    IF i > Len(fields) THEN stored
    ELSE persist_fields([stored EXCEPT !.fields = DictPut(@, fields[i].k, fields[i].v)],
                        fields, i + 1)

\* the class as the target stores it, and the next identifier to assign
persisted_class(class_schema, target_fields, next_id) ==
    persist_new_fields(
        persist_fields([fields |-> target_fields, next_id |-> next_id],
                       class_schema.fields, 1),
        class_schema.new_fields, 1)

class_persisted(b, class_id, class_schema, done) ==
    [b EXCEPT !.schema = DictPut(@, class_id,
                                 [name |-> class_schema.name,
                                  description |-> class_schema.description,
                                  fields |-> done.fields]),
              !.next_id = done.next_id]

RECURSIVE persist_classes(_, _, _)
persist_classes(b, classes, i) ==
    IF i > Len(classes) THEN b
    ELSE persist_classes(
            class_persisted(b, classes[i].k, classes[i].v,
                persisted_class(classes[i].v, DictGet(b.schema, classes[i].k).fields,
                                b.next_id)),
            classes, i + 1)

RECURSIVE persist_new_classes(_, _, _)
persist_new_classes(b, new_classes, i) ==
    IF i > Len(new_classes) THEN b
    ELSE persist_new_classes(
            class_persisted(b, ToString(b.next_id), new_classes[i],
                persisted_class(new_classes[i], <<>>, b.next_id + 1)),
            new_classes, i + 1)

\* the target environment once it has accepted the payload of post_schema
schema_persisted(b, payload) ==
    persist_new_classes(persist_classes(b, payload.classes, 1), payload.new_classes, 1)

\* the target environment once it has accepted a payload of post_validations
validation_persisted(b, payload) ==
    [b EXCEPT !.rules = Append(@, [id |-> b.next_id, name |-> payload.name,
                                   type |-> payload.type]),
              !.next_id = @ + 1]

\* the identifiers of the deleteValidation calls the target accepted
Deleted(cs) ==
    {cs[c].arg : c \in {x \in 1..Len(cs) : cs[x].op = "deleteValidation" /\ cs[x].ok}}

\* a target that gets back what a failed modify_validations took from it
validations_rolled_back(b, env) ==
    IF env.status = "ok"
    THEN [b EXCEPT !.rules = SelectSeq(@, LAMBDA rule : rule.id \notin Deleted(env.calls)),
                   !.next_udf = env.nextUdf]
    ELSE b

\* the target environment once modify_validations has made its calls
validations_reconciled(b, env) ==
    [b EXCEPT !.rules = SelectSeq(@, LAMBDA rule : rule.id \notin Deleted(env.calls)),
              !.next_udf = env.nextUdf]

(***************************************************************************)
(* The fetched files and the target environment of a run.                  *)
(***************************************************************************)
RunSourceSchemas ==
    { <<ClassEntry("2", "Invoice", "from source",
                   <<FieldEntry("3", "Total", <<PromptLine, UdfLine(1)>>),
                     FieldEntry("4", "Date", <<>>)>>)>>,
      <<ClassEntry("2", "Invoice", "from source",
                   <<FieldEntry("3", "Total", <<UdfLine(1)>>),
                     FieldEntry("4", "Date", <<UdfLine(1)>>)>>)>>,
      <<ClassEntry("2", "Receipt", "from source",
                   <<FieldEntry("3", "Total", <<>>)>>)>>,
      <<ClassEntry("2", "Invoice", "from source",
                   <<FieldEntry("3", "Total", <<UdfLine(1), UdfLine(2)>>)>>)>> }

RunTargetSchemas ==
    { <<MetaEntry("last_edited_class_at")>>,
      WithMeta(<<ClassEntry("5", "Invoice", "from target",
                            <<FieldEntry("7", "Total", <<>>)>>)>>) }

RunSourceRules ==
    { Merge(BaseRule("Check Total", "FIELD_CONFIDENCE"), [affected_fields |-> <<3>>]),
      Merge(Merge(BaseRule("Check Date", "UDF"),
                  [affected_fields |-> <<3, 4>>, input_fields |-> <<4>>]),
            ParamsWith("udf_id", 1)),
      Merge(BaseRule("Check Total", "PROMPT_UDF"), ParamsWith("udf_id", 1)),
      Merge(BaseRule("Check Date", "CLASS_CONFIDENCE"),
            ParamsWith("affected_classes", <<2>>)),
      Merge(BaseRule("Check Date", "PROMPT_UDF"), ParamsWith("udf_id", 2)) }

RunSourceValidations == {[rules |-> rs] : rs \in SeqsUpTo(RunSourceRules, MaxRules)}

RunTargetRules == { <<>>, <<TargetRule(9, "Check Total")>> }

RunFetchedUdfs ==
    <<[k |-> "1", v |-> FetchedUdf(DOMAIN VolatileValues, [return_type |-> "int"])]>>

\* the values uuid4() returns during a run
RunUuids ==
    <<[head |-> TokenA, tail |-> "f6a7b8c9d0e"], [head |-> TokenB, tail |-> "f6a7b8c9d0e"]>>

\* the first identifiers the target assigns: to entities, to UDFs
FirstId == 12
FirstUdfId == 101

InitRun ==
    /\ pc = "start"
    /\ source_schema_in \in RunSourceSchemas
    /\ source_schema = source_schema_in
    /\ source_validations_in \in RunSourceValidations
    /\ source_validations = source_validations_in
    /\ udfs_in = RunFetchedUdfs
    /\ heap = Allocated(udfs_in)
    /\ \E stored \in RunTargetSchemas, rules \in RunTargetRules :
         backend = [schema |-> stored, rules |-> rules, deleted |-> FALSE,
                    next_id |-> FirstId, next_udf |-> FirstUdfId]
    /\ udfs = <<>>
    /\ target_schema = <<>>
    /\ target_validations = NoRules
    /\ mappings = <<>>
    /\ old_schema = <<>>
    /\ new_schema = <<>>
    /\ modified_schema = <<>>
    /\ modified_validations = <<>>
    /\ posted = 0
    /\ history = <<>>
    /\ result = NoResult
    /\ calls = <<>>
    /\ minted = <<>>
    /\ schema_arg = <<>>

\* lines 160-206: the files are loaded, the settings posted, the UDFs
\* sanitized and the schema of the target fetched
Prepared(r, settings_ok, schema_ok, failAs) ==
    /\ calls' = calls
                  \o <<Call("postSettings", None, 0, settings_ok)>>
                  \o (IF settings_ok THEN <<Call("getSchema", None, 0, schema_ok)>>
                      ELSE <<>>)
    /\ IF settings_ok
       THEN heap' = r.heap /\ udfs' = ValueAt(r.heap, r.ret)
       ELSE UNCHANGED <<heap, udfs>>
    /\ IF settings_ok /\ schema_ok
       THEN target_schema' = backend.schema /\ pc' = "fetched" /\ UNCHANGED result
       ELSE Raise(failAs) /\ UNCHANGED target_schema

RunPrepare ==
    /\ pc = "start"
    /\ \E settings_ok \in BOOLEAN, schema_ok \in BOOLEAN, failAs \in FailureKinds :
         /\ (settings_ok /\ schema_ok) => failAs = "HTTPError"
         /\ ~settings_ok => schema_ok
         /\ backend.deleted => ~settings_ok
         /\ Prepared(sanitize_udf_payload(FetchedAddr, heap), settings_ok, schema_ok, failAs)
    /\ UNCHANGED <<source_schema, source_schema_in, source_validations,
                   source_validations_in, target_validations, mappings, udfs_in,
                   minted, map_args, item_args, run_args>>

\* modified_schema = modify_schema(target_schema, schema, ..., sanitized_udfs)
SchemaReconciled(r) ==
    /\ source_schema' = r.src
    /\ calls' = calls \o r.env.calls
    /\ minted' = minted \o r.env.minted
    /\ backend' = [backend EXCEPT !.next_udf = r.env.nextUdf]
    /\ IF r.status = "ok"
       THEN modified_schema' = r.payload /\ pc' = "schema_reconciled" /\ UNCHANGED result
       ELSE Raise(r.status) /\ UNCHANGED modified_schema

RunModifySchema ==
    /\ pc = "fetched"
    /\ \E failAt \in 0..CountUdfLines(source_schema) :
         \E failAs \in FailuresAt(failAt) :
            SchemaReconciled(modify_schema(target_schema, source_schema, udfs,
                                Env0(failAt, failAs, backend.next_udf, RunUuids)))
    /\ UNCHANGED <<target_schema, source_schema_in, udfs, validation_args, map_args,
                   sanitize_args, item_args, modified_validations, posted, history>>

\* result = post_schema(..., modified_schema, ...)
SchemaPosted(b, ok, failAs) ==
    /\ calls' = Append(calls, Call("postSchema", modified_schema, 0, ok))
    /\ IF ok
       THEN /\ backend' = b
            /\ result' = [status |-> "ok", payload |-> b.schema]
            /\ pc' = "schema_persisted"
       ELSE Raise(failAs) /\ UNCHANGED backend

RunPostSchema ==
    /\ pc = "schema_reconciled"
    /\ \E ok \in BOOLEAN, failAs \in FailureKinds :
         /\ ok => failAs = "HTTPError"
         /\ SchemaPosted(schema_persisted(backend, modified_schema), ok, failAs)
    /\ UNCHANGED <<udfs, minted, schema_args, validation_args, map_args, sanitize_args,
                   item_args, modified_schema, modified_validations, posted, history>>

\* a mapping computed from the schema fetched before the post
schema_to_map_stale(fetched, answered) == fetched

\* the second argument of map_field_ids: the answer of post_schema
schema_to_map(fetched, answered) == answered

\* mappings = map_field_ids(schema, result)
RunMapFieldIds ==
    /\ pc = "schema_persisted"
    /\ old_schema' = source_schema
    /\ new_schema' = schema_to_map(target_schema, result.payload)
    /\ mappings' = map_field_ids(source_schema,
                                 schema_to_map(target_schema, result.payload))
    /\ pc' = "ids_mapped"
    /\ UNCHANGED <<udfs, result, calls, minted, schema_args, target_validations,
                   source_validations, source_validations_in, sanitize_args,
                   item_args, run_args>>

\* modified_validations = modify_validations(get_validations(...), validations,
\* ..., sanitized_udfs, mappings)
ValidationsReconciled(r, fetched) ==
    /\ target_validations' = fetched
    /\ source_validations' = r.src
    /\ calls' = calls \o <<Call("getValidations", None, 0, TRUE)>> \o r.env.calls
    /\ backend' = validations_reconciled(backend, r.env)
    /\ IF r.status = "ok"
       THEN /\ modified_validations' = r.payload
            /\ pc' = "validations_reconciled"
            /\ UNCHANGED result
       ELSE Raise(r.status) /\ UNCHANGED modified_validations

ValidationsNotFetched(failAs) ==
    /\ calls' = Append(calls, Call("getValidations", None, 0, FALSE))
    /\ Raise(failAs)
    /\ UNCHANGED <<target_validations, source_validations, backend,
                   modified_validations>>

RunModifyValidations ==
    /\ pc = "ids_mapped"
    /\ \/ \E failAs \in FailureKinds : ValidationsNotFetched(failAs)
       \/ \E failAt \in 0..(CallsPerRule * Len(source_validations.rules)) :
            \E failAs \in FailuresAt(failAt) :
               ValidationsReconciled(
                   modify_validations([rules |-> backend.rules], source_validations,
                                      udfs, mappings,
                                      Env0(failAt, failAs, backend.next_udf, <<>>)),
                   [rules |-> backend.rules])
    /\ UNCHANGED <<udfs, minted, schema_args, source_validations_in, mappings,
                   map_args, sanitize_args, item_args, modified_schema, posted, history>>

\* time.sleep(10), after each request of run_prompt_udf
SettleDelay == 10
Sleep == Call("sleep", SettleDelay, 0, TRUE)

\* the code generation requested before the examples
prompt_udf_calls_reversed(validation_id, failing) ==
    <<Call("codeGeneration", validation_id, 0, failing # 2)>>
        \o (IF failing = 2 THEN <<>>
            ELSE <<Sleep, Call("promptExamples", validation_id, 0, failing # 3)>>
                    \o (IF failing = 3 THEN <<>> ELSE <<Sleep>>))

\* the calls of run_prompt_udf(..., result["id"]) up to the one that fails:
\* the examples request, then the code generation, both checked, each
\* followed by the delay
prompt_udf_calls(validation_id, failing) ==
    <<Call("promptExamples", validation_id, 0, failing # 2)>>
        \o (IF failing = 2 THEN <<>>
            ELSE <<Sleep, Call("codeGeneration", validation_id, 0, failing # 3)>>
                    \o (IF failing = 3 THEN <<>> ELSE <<Sleep>>))

\* one iteration of the loop over modified_validations: post_validations,
\* then run_prompt_udf for a payload of type PROMPT_UDF.  failing is the
\* call of the iteration that fails: 0 none, 1 the post, 2 and 3 the two
\* requests of run_prompt_udf
ValidationPosted(payload, failing, failAs) ==
    /\ calls' = calls
                  \o <<Call("postValidation", payload, backend.next_id, failing # 1)>>
                  \o (IF failing # 1 /\ payload.type = "PROMPT_UDF"
                      THEN prompt_udf_calls(backend.next_id, failing) ELSE <<>>)
    /\ backend' = IF failing # 1 THEN validation_persisted(backend, payload) ELSE backend
    /\ IF failing = 0
       THEN /\ posted' = posted + 1
            /\ result' = [status |-> "ok", payload |-> [id |-> backend.next_id]]
            /\ pc' = "persisting"
       ELSE Raise(failAs) /\ UNCHANGED posted

RunPostValidation ==
    /\ pc \in {"validations_reconciled", "persisting"}
    /\ posted < Len(modified_validations)
    /\ \E failing \in 0..3, failAs \in FailureKinds :
         /\ failing = 0 => failAs = "HTTPError"
         /\ failing > 1 => modified_validations[posted + 1].type = "PROMPT_UDF"
         /\ ValidationPosted(modified_validations[posted + 1], failing, failAs)
    /\ UNCHANGED <<udfs, minted, schema_args, validation_args, map_args, sanitize_args,
                   item_args, modified_schema, modified_validations, history>>

\* return target_project_id
RunReturn ==
    /\ pc \in {"validations_reconciled", "persisting"}
    /\ posted = Len(modified_validations)
    /\ pc' = "returned"
    /\ result' = [status |-> "ok", payload |-> project_id]
    /\ UNCHANGED <<udfs, calls, minted, schema_args, validation_args, map_args,
                   sanitize_args, item_args, run_args>>

\* the target environment once it has accepted the request of
\* delete_build_project: the project is gone with its schema, rules and UDFs
project_deleted(b) == [b EXCEPT !.schema = <<>>, !.rules = <<>>, !.deleted = TRUE]

\* main, except Exception as e: print(...); raise -- the exception of a
\* failed request leaves main as it is, not wrapped
MainRaise(cause) ==
    /\ pc' = "raised"
    /\ result' = [status |-> cause]

\* delete_build_project(target_host_url, target_token, target_project_id)
ProjectDeleted(before, ok, failAs) ==
    /\ calls' = Append(before, Call("deleteProject", project_id, 0, ok))
    /\ IF ok
       THEN /\ backend' = project_deleted(backend)
            /\ pc' = "deleted"
            /\ result' = [status |-> "ok", payload |-> project_id]
       ELSE MainRaise(failAs) /\ UNCHANGED backend

\* main, after rebuild_project has returned: without --rebuild, or with
\* --delete_build, the build project is deleted in the same invocation
RunDeleteBuildProject ==
    /\ pc = "returned"
    /\ \E ok \in BOOLEAN, failAs \in FailureKinds :
         /\ ok => failAs = "HTTPError"
         /\ ProjectDeleted(calls, ok, failAs)
    /\ UNCHANGED <<udfs, minted, schema_args, validation_args, map_args, sanitize_args,
                   item_args, modified_schema, modified_validations, posted, history>>

\* main with --create_build_project and --delete_build but not --rebuild:
\* the project deleted at lines 774-784 is deleted again at 816-822, in the
\* same invocation, and is not found
RunDeleteBuildAgain ==
    /\ pc = "deleted"
    /\ Len(calls) > 1
    /\ Cardinality({c \in 1..Len(calls) : calls[c].op = "deleteProject"}) = 1
    /\ \E failAs \in FailureKinds : ProjectDeleted(calls, FALSE, failAs)
    /\ UNCHANGED <<udfs, minted, schema_args, validation_args, map_args, sanitize_args,
                   item_args, modified_schema, modified_validations, posted, history>>

\* main is invoked with --delete_build alone: it calls delete_build_project
\* and nothing else; a project that is deleted already is not found
DeleteBuild ==
    /\ pc \in {"returned", "raised", "deleted"}
    /\ Len(history) < MaxRuns - 1
    /\ history' = Append(history, [calls |-> calls, outcome |-> pc])
    /\ \E ok \in BOOLEAN, failAs \in FailureKinds :
         /\ ok => failAs = "HTTPError"
         /\ backend.deleted => ~ok
         /\ ProjectDeleted(<<>>, ok, failAs)
    /\ source_schema' = source_schema_in
    /\ source_validations' = source_validations_in
    /\ heap' = Allocated(udfs_in)
    /\ udfs' = <<>>
    /\ target_schema' = <<>>
    /\ target_validations' = NoRules
    /\ mappings' = <<>>
    /\ old_schema' = <<>>
    /\ new_schema' = <<>>
    /\ modified_schema' = <<>>
    /\ modified_validations' = <<>>
    /\ posted' = 0
    /\ minted' = <<>>
    /\ UNCHANGED <<source_schema_in, source_validations_in, udfs_in, item_args>>

\* main is invoked again and calls rebuild_project: the same files are
\* loaded, the target environment is as the invocations before have left it
Rerun ==
    /\ pc \in {"returned", "raised", "deleted"}
    /\ \/ Len(history) < MaxRuns - 1
       \/ backend.deleted /\ Len(history) < MaxInvocations - 1
    /\ history' = Append(history, [calls |-> calls, outcome |-> pc])
    /\ pc' = "start"
    /\ source_schema' = source_schema_in
    /\ source_validations' = source_validations_in
    /\ heap' = Allocated(udfs_in)
    /\ udfs' = <<>>
    /\ target_schema' = <<>>
    /\ target_validations' = NoRules
    /\ mappings' = <<>>
    /\ old_schema' = <<>>
    /\ new_schema' = <<>>
    /\ modified_schema' = <<>>
    /\ modified_validations' = <<>>
    /\ posted' = 0
    /\ result' = NoResult
    /\ calls' = <<>>
    /\ minted' = <<>>
    /\ UNCHANGED <<source_schema_in, source_validations_in, udfs_in, backend, item_args>>

NextRun ==
    \/ RunPrepare
    \/ RunModifySchema
    \/ RunPostSchema
    \/ RunMapFieldIds
    \/ RunModifyValidations
    \/ RunPostValidation
    \/ RunReturn
    \/ RunDeleteBuildProject
    \/ RunDeleteBuildAgain
    \/ DeleteBuild
    \/ Rerun

SpecRun == InitRun /\ [][NextRun]_vars

(***************************************************************************)
(* What the claims about a run speak of                                    *)
(***************************************************************************)

\* the steps a run can take from one stage to the next
StageSteps ==
    { <<"start", "fetched">>,
      <<"fetched", "schema_reconciled">>,
      <<"schema_reconciled", "schema_persisted">>,
      <<"schema_persisted", "ids_mapped">>,
      <<"ids_mapped", "validations_reconciled">>,
      <<"validations_reconciled", "persisting">>,
      <<"validations_reconciled", "returned">>,
      <<"persisting", "returned">> }

\* the stages from which a run can raise, the deletion of the build
\* project by main, and the start of another run
Stages == {step[1] : step \in StageSteps}
EndSteps ==
    {<<stage, "raised">> : stage \in Stages}
        \cup {<<"returned", "deleted">>, <<"returned", "raised">>,
              <<"raised", "deleted">>, <<"deleted", "raised">>}
        \cup {<<"returned", "start">>, <<"raised", "start">>, <<"deleted", "start">>}

ValidationOps == {"getValidations", "deleteValidation", "postValidation"}

\* the run has touched the validation rules: fetched, rewritten, deleted
\* or posted one
ValidationsTouched ==
    \/ \E c \in 1..Len(calls) : calls[c].op \in ValidationOps
    \/ modified_validations # <<>>
    \/ source_validations # source_validations_in

\* the mapping has been computed, from the schema the target answered to
\* post_schema, which is the schema it stores
MappingComputed ==
    /\ new_schema # <<>>
    /\ backend.deleted \/ new_schema = backend.schema
    /\ \E c \in 1..Len(calls) : calls[c].op = "postSchema" /\ calls[c].ok
    /\ mappings = map_field_ids(old_schema, new_schema)

\* C16: a run of rebuild_project goes through its stages in one order only
\* (modify_schema, post_schema, map_field_ids, modify_validations, the
\* posts of the validations), leaves a stage only for the next one or by
\* raising, and does nothing to a validation rule before the mapping is
\* computed, from the answer of post_schema.
C16_StagesInOrder ==
    /\ [][pc' # pc => <<pc, pc'>> \in StageSteps \cup EndSteps]_vars
    /\ [](ValidationsTouched => MappingComputed)
    /\ [](pc \in {"ids_mapped", "validations_reconciled", "persisting", "returned"}
             => MappingComputed)

\* a run that went through every stage: the target has given the new field
\* Date the identifier 12, which the schema fetched before the post lacks,
\* and a rule of the target was deleted and two were posted
C16_Witness ==
    /\ pc = "returned"
    /\ new_schema # target_schema
    /\ DictHas(mappings, "4")
    /\ DictGet(mappings, "4") = "12"
    /\ posted = 2
    /\ \E c \in 1..Len(calls) : calls[c].op = "deleteValidation"

\* the step starts another invocation of main: the run before is over
NewInvocation == history' = Append(history, [calls |-> calls, outcome |-> pc])

\* C17: a failure is terminal for the run: a failed external call is the
\* last call of its run, the run has then raised to the caller, and a run
\* that has raised issues no call and takes no further step (the next step
\* is another invocation of main).
C17_FailureIsTerminal ==
    /\ [](\A c \in 1..Len(calls) :
            ~calls[c].ok => /\ c = Len(calls)
                            /\ pc = "raised"
                            /\ result.status \in {"Exception"} \cup FailureKinds)
    /\ [][pc = "raised" => NewInvocation]_vars

\* the UDFs as sanitize_udf_payload returns them for the fetched ones
RunSanitized ==
    ValueAt(sanitize_udf_payload(FetchedAddr, Allocated(udfs_in)).heap,
            sanitize_udf_payload(FetchedAddr, Allocated(udfs_in)).ret)

\* the references of a run to a UDF: the UDF lines of the processed source
\* fields and the source rules of kind UDF or PROMPT_UDF
CountReferences == Cardinality(ProcessedUdfLines) + Len(UdfRules)

\* the createUdf calls among the calls of a run
CreatesOf(cs) == SelectSeq(cs, LAMBDA c : c.op = "createUdf")

\* the runs so far: those that have ended, then the one under way
Runs == history \o <<[calls |-> calls, outcome |-> pc]>>

(***************************************************************************)
(* modify_schema called twice by one caller, with the same target and      *)
(* source objects and the same UDFs: the second call gets the source       *)
(* schema as the first call left it.                                       *)
(***************************************************************************)
InitRepeat ==
    /\ pc = "start"
    /\ target_schema \in RunTargetSchemas
    /\ source_schema \in RunSourceSchemas
    /\ source_schema_in = source_schema
    /\ udfs = <<[k |-> "1", v |-> SanitizedUdf("normalize")]>>
    /\ result = NoResult
    /\ calls = <<>>
    /\ minted = <<>>
    /\ target_validations = NoRules
    /\ source_validations = NoRules
    /\ source_validations_in = NoRules
    /\ mappings = <<>>
    /\ old_schema = <<>>
    /\ new_schema = <<>>
    /\ heap = <<>>
    /\ udfs_in = <<>>
    /\ schema_arg = <<>>
    /\ NotRunning

\* what the caller holds when a call of modify_schema has ended with r
Called(r, after) ==
    /\ result' = [status |-> r.status, payload |-> r.payload]
    /\ source_schema' = r.src
    /\ calls' = r.env.calls
    /\ minted' = minted \o r.env.minted
    /\ pc' = after

\* the identifier the target gives the next UDF, after the calls cs
NextUdfAfter(cs) == FirstUdfId + Len(SelectSeq(CreatesOf(cs), LAMBDA c : c.ok))

\* modify_schema(target_schema, source_schema, ..., udfs)
CallOnce ==
    /\ pc = "start"
    /\ \E failAt \in 0..CountUdfLines(source_schema),
          us \in UuidDraws(CountFields(source_schema)) :
         \E failAs \in FailuresAt(failAt) :
            Called(modify_schema(target_schema, source_schema, udfs,
                                 Env0(failAt, failAs, FirstUdfId, us)),
                   "called_once")
    /\ UNCHANGED <<target_schema, source_schema_in, udfs, validation_args, map_args,
                   sanitize_args, item_args, run_args>>

\* modify_schema(target_schema, source_schema, ..., udfs) again, with the
\* same objects
CallAgain ==
    /\ pc = "called_once"
    /\ history' = <<[calls |-> calls, outcome |-> result.status]>>
    /\ \E failAt \in 0..CountUdfLines(source_schema),
          us \in UuidDraws(CountFields(source_schema)) :
         \E failAs \in FailuresAt(failAt) :
            Called(modify_schema(target_schema, source_schema, udfs,
                                 Env0(failAt, failAs, NextUdfAfter(calls), us)),
                   "called_twice")
    /\ UNCHANGED <<target_schema, source_schema_in, udfs, validation_args, map_args,
                   sanitize_args, item_args, modified_schema, modified_validations,
                   posted, backend>>

NextRepeat == CallOnce \/ CallAgain

SpecRepeat == InitRepeat /\ [][NextRepeat]_vars

\* the arguments and the answers of the createUdf calls
CreateArgs(cs) == [k \in 1..Len(CreatesOf(cs)) |-> CreatesOf(cs)[k].arg]
CreateRets(cs) == {c.ret : c \in {x \in Range(CreatesOf(cs)) : x.ok}}

\* C19: UDF creation is never reused.  A call that returns has issued one
\* createUdf call per UDF line of a processed source field, also when two
\* lines name the same UDF; a UDF created by the second call is none of
\* those the first call created; and a second call on the same source and
\* target snapshots, when the target accepts every call of it, issues the
\* createUdf calls of the first once more.
C19_UdfsNeverReused ==
    /\ (pc = "called_once" /\ result.status = "ok") =>
          Len(CreatesOf(calls)) = Cardinality(ProcessedUdfLines)
    /\ pc = "called_twice" => CreateRets(calls) \cap CreateRets(history[1].calls) = {}
    /\ (pc = "called_twice" /\ history[1].outcome = "ok"
           /\ \A c \in 1..Len(calls) : calls[c].ok) =>
          /\ Len(CreatesOf(calls)) = Cardinality(ProcessedUdfLines)
          /\ CreateArgs(calls) = CreateArgs(history[1].calls)

\* the positions of the calls of the run with the operation
CallsOf(op) == {c \in 1..Len(calls) : calls[c].op = op}

\* the rule persisted at c is of kind PROMPT_UDF
PromptUdfPersisted(c) ==
    /\ c \in CallsOf("postValidation")
    /\ calls[c].ok
    /\ calls[c].arg.type = "PROMPT_UDF"

\* C21: every code-generation request of a run comes right after the delay
\* that follows the examples request for the same identifier, which comes
\* right after the postValidation call that persisted a rule of kind
\* PROMPT_UDF and returned that identifier; a run that returns has made
\* the three calls, in that order, for every rule of kind PROMPT_UDF it
\* persisted, and none of the two requests for a rule of another kind.
C21_CodeGenerationAfterPersist ==
    /\ \A c \in CallsOf("codeGeneration") :
         /\ c > 3
         /\ calls[c - 1] = Sleep
         /\ calls[c - 2] = Call("promptExamples", calls[c].arg, 0, TRUE)
         /\ PromptUdfPersisted(c - 3)
         /\ calls[c - 3].ret = calls[c].arg
    /\ \A c \in CallsOf("promptExamples") :
         /\ c > 1
         /\ PromptUdfPersisted(c - 1)
         /\ calls[c - 1].ret = calls[c].arg
    /\ pc = "returned" =>
         \A c \in CallsOf("postValidation") :
            PromptUdfPersisted(c) =>
               /\ c + 3 \in CallsOf("codeGeneration")
               /\ calls[c + 3].ok

\* a run that returned after persisting a rule of kind PROMPT_UDF, with
\* its two requests, and a rule of another kind
C21_Witness ==
    /\ pc = "returned"
    /\ \E c \in CallsOf("codeGeneration") : calls[c].arg = calls[c - 3].ret
    /\ \E c \in CallsOf("postValidation") : calls[c].ok /\ calls[c].arg.type # "PROMPT_UDF"

\* the UDFs and the rules the target holds
TargetUdfs == FirstUdfId..(backend.next_udf - 1)
TargetRuleIdsNow == {backend.rules[i].id : i \in 1..Len(backend.rules)}

\* the calls of a run that the target accepted, by operation
Accepted(run, op) == {c \in 1..Len(run.calls) : run.calls[c].op = op /\ run.calls[c].ok}

\* what the accepted calls of a run did is still so on the target
EffectsStand(run) ==
    /\ \A c \in Accepted(run, "deleteValidation") : run.calls[c].arg \notin TargetRuleIdsNow
    /\ \A c \in Accepted(run, "createUdf") :
         backend.deleted \/ run.calls[c].ret \in TargetUdfs

\* the invocation requested no deletion of the project, or its last call
\* is such a request and was not accepted
DeletionOnlyFailed(run) ==
    \/ \A c \in 1..Len(run.calls) : run.calls[c].op # "deleteProject"
    \/ /\ run.calls[Len(run.calls)].op = "deleteProject"
       /\ ~run.calls[Len(run.calls)].ok

\* no call of the run under way takes back a rule the run has persisted
NothingTakenBack ==
    \A c \in Accepted(Runs[Len(Runs)], "deleteValidation") :
       \A d \in Accepted(Runs[Len(Runs)], "postValidation") : calls[c].arg # calls[d].ret

\* C22: what a run has done to the target stays done when the run fails:
\* every rule it deleted is absent from the target and every UDF it created
\* is on the target, in every later state in which the build project
\* exists; an invocation that has raised makes no further call, has
\* requested the deletion of the project only if that request is the one
\* that failed, and the target stays as it is until another invocation of
\* main deletes the build project; and no call of a run deletes what the
\* run has persisted.
C22_NoRollback ==
    /\ [](\A r \in 1..Len(Runs) : EffectsStand(Runs[r]))
    /\ [](\A r \in 1..Len(Runs) :
            Runs[r].outcome = "raised" => DeletionOnlyFailed(Runs[r]))
    /\ []NothingTakenBack
    /\ [][pc = "raised" =>
            /\ NewInvocation
            /\ backend' = backend
                  \/ calls' = <<Call("deleteProject", project_id, 0, TRUE)>>]_vars

\* a run that failed in modify_validations after it had created a UDF for
\* a line and for a rule, posted the schema and deleted a rule of the target
C22_Witness ==
    /\ pc = "raised"
    /\ Accepted(Runs[Len(Runs)], "deleteValidation") # {}
    /\ Cardinality(Accepted(Runs[Len(Runs)], "createUdf")) >= 2
    /\ Accepted(Runs[Len(Runs)], "postSchema") # {}
    /\ modified_validations = <<>>

\* the references of the run to a UDF that the sanitized UDFs lack
MissingLines ==
    {p \in ProcessedUdfLines :
        ~DictHas(RunSanitized, ToString(SourceLine(p).function_id))}
MissingRules ==
    {i \in Range(UdfRules) :
        ~DictHas(RunSanitized, ToString(DictGet(SrcRules[i].params, "udf_id")))}

\* the run is past modify_schema, past modify_validations
SchemaPayloadReturned ==
    modified_schema # <<>> \/ pc \notin {"start", "fetched", "raised", "deleted"}
ValidationPayloadsReturned ==
    modified_validations # <<>> \/ pc \in {"validations_reconciled", "persisting", "returned"}

\* C25: a UDF line of a processed field, or a rule of kind UDF or
\* PROMPT_UDF, that names a UDF the sanitized UDFs lack makes the call
\* fail: modify_schema, or modify_validations, returns no payload, the run
\* raises with the KeyError unless a call failed before, nothing is posted
\* for that stage, and no createUdf call is issued for the reference: the
\* createUdf calls carry UDFs that were found, and are at most as many as
\* the references that can be found.
C25_MissingUdfAborts ==
    /\ MissingLines # {} =>
         /\ ~SchemaPayloadReturned
         /\ CallsOf("postSchema") = {}
         /\ (pc = "raised" /\ CallsOf("getSchema") # {} /\ \A c \in 1..Len(calls) : calls[c].ok)
               => result = [status |-> "Exception", cause |-> "KeyError"]
    /\ MissingRules # {} =>
         /\ ~ValidationPayloadsReturned
         /\ CallsOf("postValidation") = {}
         /\ (pc = "raised" /\ CallsOf("getValidations") # {}
                /\ \A c \in 1..Len(calls) : calls[c].ok)
               => result.status = "Exception" /\ result.cause \in {"KeyError", "ValueError"}
    /\ \A c \in CallsOf("createUdf") :
         \E k \in 1..Len(RunSanitized) : calls[c].arg = RunSanitized[k].v
    /\ Cardinality(CallsOf("createUdf")) <=
         CountReferences - Cardinality(MissingLines) - Cardinality(MissingRules)

\* a run that raised the KeyError in modify_validations: the rule on UDF 2,
\* which the UDFs lack, came after a rule on UDF 1, for which the UDF was
\* created, and nothing was posted
C25_Witness ==
    /\ pc = "raised"
    /\ result = [status |-> "Exception", cause |-> "KeyError"]
    /\ MissingLines = {}
    /\ Len(SrcRules) = 2
    /\ MissingRules = {2}
    /\ SrcRules[1].type = "UDF"
    /\ Cardinality(CallsOf("createUdf")) = 1 + Cardinality(ProcessedUdfLines)
    /\ \A c \in 1..Len(calls) : calls[c].ok
    /\ CallsOf("postValidation") = {}

\* the calls modify_validations makes to reconcile the rules: deletions,
\* examples requests, and the creations that come after getValidations
ReconcileCalls ==
    CallsOf("deleteValidation") \cup CallsOf("runExamples")
        \cup {c \in CallsOf("createUdf") : \E g \in CallsOf("getValidations") : g < c}

\* the run has raised inside modify_validations
RaisedInModifyValidations ==
    /\ pc = "raised"
    /\ Accepted(Runs[Len(Runs)], "getValidations") # {}
    /\ modified_validations = <<>>

\* C30: in a run every deletion, every creation of a UDF for a rule and
\* every examples request of modify_validations comes before the first
\* postValidation call; and when the reconciliation of a rule fails, by a
\* call that fails or by an exception, no rule is persisted in the run and
\* the target holds none of the rules the reconciliation had to delete.
C30_ReconciledBeforePersisted ==
    /\ \A c \in ReconcileCalls : \A d \in CallsOf("postValidation") : c < d
    /\ ((\E c \in ReconcileCalls : ~calls[c].ok) \/ RaisedInModifyValidations) =>
          /\ CallsOf("postValidation") = {}
          /\ \A c \in CallsOf("deleteValidation") : calls[c].arg \notin TargetRuleIdsNow

====
